---- MODULE Spec2Model ----
(***************************************************************************)
(* PumpChatClient (src/server/utils/pumpchat.ts): a socket.io-over-        *)
(* WebSocket chat client.  The client object, the transport it talks to,   *)
(* its timers and its caller are one state machine; every handler of the   *)
(* class is an operator from a state record to a state record, composed    *)
(* the way the TypeScript composes the calls, and every callback the       *)
(* runtime can deliver is one action.                                      *)
(***************************************************************************)
EXTENDS Integers, Sequences, FiniteSets, TLC

(***************************************************************************)
(* Bounds of the exploration (not program constants).                      *)
(***************************************************************************)
MaxLimit == 2            \* largest messageHistoryLimit option tried
MaxMsgs == 4             \* newMessage frames delivered in one run
MaxConnectsBuffer == 1   \* transport attempts in the buffer runs
MaxFramesBuffer == 5     \* inbound frames in the buffer runs
MaxConnectsBackoff == 7  \* transport attempts in the backoff runs
MaxCallsBackoff == 2     \* connect() calls of the caller in the backoff runs
MaxConnectsSession == 2  \* transport attempts in the session runs
MaxFramesSession == 6    \* inbound frames in the session runs
MaxSendsSession == 1     \* sendMessage() calls in the session runs
MaxConnectsLifecycle == 4 \* transport attempts in the lifecycle runs
MaxCallsLifecycle == 2   \* connect() calls of the caller in the lifecycle runs
MaxConnectsCodec == 1    \* transport attempts in the codec runs
MaxFramesCodec == 4      \* inbound frames in the codec runs
MaxFramesCorrelator == 2 \* inbound frames in the correlator runs
MaxSendsCorrelator == 11 \* sendMessage() calls in the correlator runs
MaxMsgsSnapshot == 3     \* newMessage frames in the snapshot runs
MaxFramesSnapshot == 5   \* inbound frames in the snapshot runs
MaxMarks == 1            \* pushes of the caller onto the array it holds
MaxMsgsQueue == 3        \* chat messages delivered in the queue runs
MaxDrains == 3           \* extractMessages() calls in the queue runs
MaxMsgsHistory == 2      \* newMessage frames in the history runs
MaxFramesHistory == 4    \* inbound frames in the history runs
MaxConnectsKeepalive == 2 \* transport attempts in the keepalive runs
MaxFramesKeepalive == 3  \* inbound frames in the keepalive runs
MaxConnectsRecovery == 3 \* transport attempts in the recovery runs
MaxFramesRecovery == 5   \* inbound frames in the recovery runs
MaxFramesSweep == 2      \* inbound frames in the sweep runs
MaxSendsSweep == 3       \* sendMessage() calls in the sweep runs
MaxTicksSweep == 4       \* sweep periods that pass in the sweep runs

(***************************************************************************)
(* Program constants.                                                      *)
(***************************************************************************)
DefaultHistoryLimit == 100
maxReconnectAttempts == 5
BaseDelay == 1000
MaxDelay == 30000
AckIdModulus == 10
AckTimeout == 30000
SweepPeriod == 10000

(***************************************************************************)
(* JSON values, as JSON.parse yields them.  A value is a record tagged by  *)
(* its kind k; the accessors below are the JavaScript ones the handlers    *)
(* apply (x[0], x.field, Array.isArray, truthiness).                       *)
(***************************************************************************)
Undefined == [k |-> "undefined"]
JNull == [k |-> "null"]
JStr(x) == [k |-> "str", v |-> x]
JNum(n) == [k |-> "num", v |-> n]
JArr(xs) == [k |-> "arr", items |-> xs]
JObj(fs) == [k |-> "obj", f |-> fs]

\* A ChatMessage object; only its identifier is kept.
Msg(i) == JObj([id |-> JNum(i)])

IsArray(v) == v.k = "arr"

Nullish(v) == v.k \in {"undefined", "null"}

Truthy(v) ==
    /\ ~Nullish(v)
    /\ ~(v.k = "num" /\ v.v = 0)
    /\ ~(v.k = "str" /\ v.v = "")

\* v.name for a v that is neither null nor undefined
Get(v, name) ==
    IF v.k = "obj" /\ name \in DOMAIN v.f THEN v.f[name] ELSE Undefined

\* v[0] for a v that is neither null nor undefined
At0(v) ==
    IF v.k = "arr" /\ Len(v.items) >= 1 THEN v.items[1] ELSE Undefined

(***************************************************************************)
(* The text after a frame's digit prefix: empty, text JSON.parse rejects,  *)
(* or the text of a JSON value.                                            *)
(***************************************************************************)
Empty == [b |-> "empty"]
Bad == [b |-> "bad"]
Json(v) == [b |-> "json", v |-> v]

\* JSON.parse(text): [ok |-> FALSE] is a SyntaxError
JsonParse(body) ==
    IF body.b = "json" THEN [ok |-> TRUE, v |-> body.v] ELSE [ok |-> FALSE]

\* An inbound frame: its leading run of decimal digits and the rest.
Frame(digits, body) == [digits |-> digits, body |-> body]

Null == 0

VARIABLES
    connection,          \* this.connection: Null or a connection handle
    isConnected,         \* this.isConnected
    messageHistory,      \* this.messageHistory (a JSON value)
    messageHistoryLimit, \* this.messageHistoryLimit
    pingInterval,        \* this.pingInterval: Null, or the live interval's period
    reconnectAttempts,   \* this.reconnectAttempts
    ackId,               \* this.ackId
    pendingAcks,         \* this.pendingAcks: id -> [event, timestamp]
    transport,           \* handle -> "unused" | "open" | "closing" | "closed"
    connecting,          \* client.connect() calls not yet answered
    timers,              \* reconnect timeouts scheduled and not yet fired
    sweeps,              \* live setInterval(cleanupStaleAcks) timers
    now,                 \* Date.now()
    thrown,              \* an exception left a handler uncaught
    hasErrorListener,    \* the caller registered an 'error' listener
    out,                 \* frames written by the last step
    evs,                 \* events emitted by the last step
    connState,           \* the spec's ConnectionState
    delays,              \* delays scheduled since the counter was last 0
    giveUps,             \* maxReconnectAttemptsReached events so far
    msgCount,            \* newMessage frames delivered so far
    histSet,             \* a history response has replaced the buffer
    calls,               \* connect() calls made by the caller
    connects,            \* transport attempts started so far
    frames,              \* inbound frames delivered so far
    sends,               \* sendMessage() calls made by the caller
    stale,               \* pending timeouts scheduled before the last disconnect()
    served,              \* handles whose 41 frame, received while Active, ran the policy
    pingTimers,          \* ping intervals: live now, set and cleared so far
    alloc,               \* the ack ids handed out: how many, when each, and the last
    log,                 \* in a logged run: frames written, events, states entered
    held,                \* the array the caller got from its last getMessages()
    queue,               \* pumpchat-queue: the module's messages array
    journal,             \* message events delivered and drains made, in order
    sched,               \* scheduler: the Rooms and Messages collections, the turns
    cap                  \* the run's budget of environment steps

vars == <<connection, isConnected, messageHistory, messageHistoryLimit,
          pingInterval, reconnectAttempts, ackId, pendingAcks, transport,
          connecting, timers, sweeps, now, thrown, hasErrorListener, out, evs,
          connState, delays, giveUps, msgCount, histSet, calls, connects,
          frames, sends, stale, served, pingTimers, alloc, log, held, queue, journal,
          sched, cap>>

\* The state as one record, for the handlers to transform.
Cur ==
    [connection |-> connection, isConnected |-> isConnected,
     messageHistory |-> messageHistory,
     messageHistoryLimit |-> messageHistoryLimit,
     pingInterval |-> pingInterval, reconnectAttempts |-> reconnectAttempts,
     ackId |-> ackId, pendingAcks |-> pendingAcks, transport |-> transport,
     connecting |-> connecting, timers |-> timers, sweeps |-> sweeps,
     now |-> now, thrown |-> thrown, hasErrorListener |-> hasErrorListener,
     out |-> out, evs |-> evs, connState |-> connState, delays |-> delays,
     giveUps |-> giveUps, msgCount |-> msgCount, histSet |-> histSet,
     calls |-> calls, connects |-> connects, frames |-> frames,
     sends |-> sends, stale |-> stale, served |-> served, alloc |-> alloc,
     pingTimers |-> pingTimers,
     log |-> log, held |-> held, queue |-> queue, journal |-> journal,
     sched |-> sched, cap |-> cap]

\* the log after a step that ends in r: the frames written other than the
\* keepalive ping, the events emitted, the session state entered
Logged(r) ==
    IF r.cap.logged
    THEN [out |-> r.log.out \o SelectSeq(r.out, LAMBDA x : x.t # "2"),
          evs |-> r.log.evs \o r.evs,
          states |-> IF r.connState # connState
                     THEN Append(r.log.states, r.connState)
                     ELSE r.log.states]
    ELSE r.log

Apply(r) ==
    /\ connection' = r.connection
    /\ isConnected' = r.isConnected
    /\ messageHistory' = r.messageHistory
    /\ messageHistoryLimit' = r.messageHistoryLimit
    /\ pingInterval' = r.pingInterval
    /\ reconnectAttempts' = r.reconnectAttempts
    /\ ackId' = r.ackId
    /\ pendingAcks' = r.pendingAcks
    /\ transport' = r.transport
    /\ connecting' = r.connecting
    /\ timers' = r.timers
    /\ sweeps' = r.sweeps
    /\ now' = r.now
    /\ thrown' = r.thrown
    /\ hasErrorListener' = r.hasErrorListener
    /\ out' = r.out
    /\ evs' = r.evs
    /\ connState' = r.connState
    /\ delays' = r.delays
    /\ giveUps' = r.giveUps
    /\ msgCount' = r.msgCount
    /\ histSet' = r.histSet
    /\ calls' = r.calls
    /\ connects' = r.connects
    /\ frames' = r.frames
    /\ sends' = r.sends
    /\ stale' = r.stale
    /\ served' = r.served
    /\ alloc' = r.alloc
    /\ pingTimers' = r.pingTimers
    /\ log' = Logged(r)
    /\ held' = r.held
    /\ queue' = r.queue
    /\ journal' = r.journal
    /\ sched' = r.sched
    /\ cap' = r.cap

\* The state a callback starts from: nothing written or emitted yet.
Begin == [Cur EXCEPT !.out = <<>>, !.evs = <<>>]

(***************************************************************************)
(* EventEmitter.emit.  Node's emitter throws when 'error' is emitted and   *)
(* no 'error' listener is registered; every other event without a listener *)
(* is dropped silently.  An exception in flight is s.thrown: the           *)
(* statements after the throwing one are skipped until a catch clears it.  *)
(***************************************************************************)
Event(name, arg) == [name |-> name, arg |-> arg]

Throw(s) == [s EXCEPT !.thrown = TRUE]

Catch(s) == [s EXCEPT !.thrown = FALSE]

\* pumpchat-queue, the 'message' listener: push onto the module's messages
\* array, then log message.username (a TypeError on null and undefined)
OnMessage(s, message) ==
    LET s1 == [s EXCEPT !.queue = Append(@, message),
                        !.journal = Append(@, [kind |-> "msg", m |-> message])]
    IN IF Nullish(message) THEN Throw(s1) ELSE s1

Emit(s, name, arg) ==
    IF name = "error" /\ ~s.hasErrorListener
    THEN Throw(s)
    ELSE LET s1 == [s EXCEPT !.evs = Append(@, Event(name, arg))]
         IN IF name = "message" THEN OnMessage(s1, arg) ELSE s1

\* send(data): written only with a connection handle and the connected flag
Send(s, data) ==
    IF s.connection # Null /\ s.isConnected
    THEN [s EXCEPT !.out = Append(@, data)]
    ELSE s

StopPing(s) ==
    IF s.pingInterval # Null
    THEN [s EXCEPT !.pingInterval = Null,
                   !.pingTimers.live = @ - 1,
                   !.pingTimers.cleared = @ + 1]
    ELSE s

\* setInterval takes a non-number period as 1
Period(interval) == IF interval.k = "num" THEN interval.v ELSE 1

\* startPing without the stopPing() it begins with
StartPing_NoStop(s, interval) ==
    [s EXCEPT !.pingInterval = Period(interval),
              !.pingTimers.live = @ + 1,
              !.pingTimers.set = @ + 1]

StartPing(s, interval) ==
    [StopPing(s) EXCEPT !.pingInterval = Period(interval),
                        !.pingTimers.live = @ + 1,
                        !.pingTimers.set = @ + 1]

SendPong(s) == Send(s, [t |-> "3"])

\* getNextAckId(): the id handed out, and the state with the counter advanced
NextAckIdAfter(id) == (id + 1) % AckIdModulus

\* the id handed out is the advanced counter
GetNextAckId_PreIncrement(s) ==
    [id |-> NextAckIdAfter(s.ackId),
     s |-> [s EXCEPT !.ackId = NextAckIdAfter(s.ackId)]]

GetNextAckId(s) ==
    [id |-> s.ackId, s |-> [s EXCEPT !.ackId = NextAckIdAfter(s.ackId)]]

NoAck == [event |-> "none", timestamp |-> 0]

PendingAck(event, timestamp) == [event |-> event, timestamp |-> timestamp]

\* a 42<id>[event, ...] request frame
Request(id, event, arg) == [t |-> "42", id |-> id, event |-> event, arg |-> arg]

\* allocate an id, record the pending entry, write the request
SendRequest(s, event, arg) ==
    LET a == GetNextAckId(s)
        n == s.alloc.n + 1
        made == [n |-> n,
                 seq |-> [s.alloc.seq EXCEPT ![a.id] = n],
                 owner |-> [s.alloc.owner EXCEPT ![a.id] = s.connection],
                 last |-> [id |-> a.id,
                           occupied |-> s.pendingAcks[a.id].event # "none",
                           gap |-> n - s.alloc.seq[a.id],
                           inflight |-> Cardinality(
                               {id \in DOMAIN s.pendingAcks :
                                    s.pendingAcks[id].event # "none"})]]
        s1 == [a.s EXCEPT !.pendingAcks[a.id] = PendingAck(event, s.now),
                          !.alloc = made]
    IN Send(s1, Request(a.id, event, arg))

\* the request sent without its pending entry
RequestMessageHistory_Unrecorded(s) ==
    LET a == GetNextAckId(s)
    IN Send(a.s, Request(a.id, "getMessageHistory", s.messageHistoryLimit))

RequestMessageHistory(s) ==
    SendRequest(s, "getMessageHistory", s.messageHistoryLimit)

HandleConnectedAck(s) == SendRequest(s, "joinRoom", 0)

RECURSIVE Pow2(_)
Pow2(n) == IF n = 0 THEN 1 ELSE 2 * Pow2(n - 1)

Min(a, b) == IF a < b THEN a ELSE b

\* ReconnectDelay computed from the counter before its increment
ReconnectDelay_BeforeIncrement(attempts) ==
    Min(BaseDelay * Pow2(attempts - 1), MaxDelay)

\* Math.min(1000 * Math.pow(2, attempts), 30000)
ReconnectDelay(attempts) == Min(BaseDelay * Pow2(attempts), MaxDelay)

\* AttemptReconnect with the budget test off by one (<= for <)
AttemptReconnect_OneMore(s) ==
    IF s.reconnectAttempts <= maxReconnectAttempts
    THEN LET a == s.reconnectAttempts + 1
             s1 == Emit([s EXCEPT !.reconnectAttempts = a], "tryReconnect",
                        Undefined)
         IN [s1 EXCEPT !.timers = @ + 1,
                       !.delays = Append(@, ReconnectDelay(a))]
    ELSE [Emit(s, "maxReconnectAttemptsReached", Undefined)
              EXCEPT !.giveUps = @ + 1]

\* attemptReconnect()
AttemptReconnect(s) ==
    IF s.reconnectAttempts < maxReconnectAttempts
    THEN LET a == s.reconnectAttempts + 1
             s1 == Emit([s EXCEPT !.reconnectAttempts = a], "tryReconnect",
                        Undefined)
         IN [s1 EXCEPT !.timers = @ + 1,
                       !.delays = Append(@, ReconnectDelay(a))]
    ELSE [Emit(s, "maxReconnectAttemptsReached", Undefined)
              EXCEPT !.giveUps = @ + 1]

\* connect(): one more transport attempt in flight
Connect(s) ==
    [s EXCEPT !.connecting = @ + 1, !.connects = @ + 1]

\* PushBounded with the shift taken one entry early (>= for >)
PushBounded_ShiftEarly(items, message, limit) ==
    LET pushed == Append(items, message)
    IN IF Len(pushed) >= limit THEN Tail(pushed) ELSE pushed

\* the push, and the shift when the length exceeds the limit
PushBounded(items, message, limit) ==
    LET pushed == Append(items, message)
    IN IF Len(pushed) > limit THEN Tail(pushed) ELSE pushed

\* handleNewMessage: push on a value that is no array is a TypeError
HandleNewMessage(s, message) ==
    IF ~IsArray(s.messageHistory)
    THEN Throw(s)
    ELSE Emit([s EXCEPT !.messageHistory =
                   JArr(PushBounded(s.messageHistory.items, message,
                                    s.messageHistoryLimit))],
              "message", message)

\* this.messageHistory = value: a caller that held the old array itself
\* keeps that array, which the client no longer uses
Detached(s) ==
    IF s.held.live
    THEN [s EXCEPT !.held.live = FALSE,
                   !.held.items = IF IsArray(s.messageHistory)
                                  THEN s.messageHistory.items ELSE <<>>]
    ELSE s

\* a history response added to the entries already in the buffer
SetHistory_Merge(s, value) ==
    LET merged == IF IsArray(s.messageHistory) /\ IsArray(value)
                  THEN JArr(s.messageHistory.items \o value.items)
                  ELSE value
    IN Emit([Detached(s) EXCEPT !.messageHistory = merged, !.histSet = TRUE],
            "messageHistory", merged)

SetHistory(s, value) ==
    Emit([Detached(s) EXCEPT !.messageHistory = value, !.histSet = TRUE],
         "messageHistory", value)

(***************************************************************************)
(* The frame handlers.                                                     *)
(***************************************************************************)
\* handleConnect: JSON.parse outside any try; connectData.pingInterval on
\* null is a TypeError
HandleConnect(s, body) ==
    LET p == JsonParse(body)
    IN IF ~p.ok \/ Nullish(p.v)
       THEN Throw(s)
       ELSE LET interval == Get(p.v, "pingInterval")
                s1 == IF Truthy(interval) THEN StartPing(s, interval) ELSE s
            IN Send(s1, [t |-> "40"])

DefaultReason == JStr("Server initiated disconnect")

\* the reason of a 41 frame; a payload that does not parse keeps the default
DisconnectReason(body) ==
    LET p == JsonParse(body)
    IN IF body.b = "empty" \/ ~p.ok THEN DefaultReason
       ELSE IF Truthy(p.v) /\ p.v.k = "str" THEN p.v
       ELSE IF Truthy(p.v) /\ Truthy(Get(p.v, "reason")) THEN Get(p.v, "reason")
       ELSE DefaultReason

HandleDisconnect(s, body) ==
    LET s1 == [s EXCEPT !.isConnected = FALSE, !.connection = Null]
        s2 == StopPing(s1)
        s3 == Emit(s2, "disconnected", DisconnectReason(body))
    IN AttemptReconnect(s3)

\* the body of handleEvent's try block
HandleEventTry(s, body) ==
    LET p == JsonParse(body)
    IN IF ~p.ok \/ ~IsArray(p.v)
       THEN Throw(s)        \* SyntaxError, or destructuring a non-iterable
       ELSE LET eventName == At0(p.v)
                payload == IF Len(p.v.items) >= 2 THEN p.v.items[2]
                           ELSE Undefined
            IN CASE eventName = JStr("setCookie") -> RequestMessageHistory(s)
                 [] eventName = JStr("newMessage") -> HandleNewMessage(s, payload)
                 [] eventName = JStr("userLeft") -> Emit(s, "userLeft", payload)
                 [] OTHER -> s

HandleEvent(s, body) == Catch(HandleEventTry(s, body))

\* the body of handleEventWithAck's try block
HandleEventWithAckTry(s, body) ==
    LET p == JsonParse(body)
    IN IF ~p.ok \/ Nullish(p.v)
       THEN Throw(s)        \* SyntaxError, or ackData[0] on null
       ELSE LET ackData == p.v
                eventData == At0(ackData)
            IN IF Truthy(eventData) /\ Truthy(Get(eventData, "messages"))
               THEN SetHistory(s, Get(eventData, "messages"))
               ELSE IF IsArray(eventData)
               THEN SetHistory(s, eventData)
               ELSE IF IsArray(ackData) /\ Len(ackData.items) > 0
               THEN SetHistory(s, At0(ackData))
               ELSE s

HandleEventWithAck(s, body) == Catch(HandleEventWithAckTry(s, body))

RECURSIVE ParseInt(_)
ParseInt(ds) ==
    IF ds = <<>> THEN 0
    ELSE 10 * ParseInt(SubSeq(ds, 1, Len(ds) - 1)) + ds[Len(ds)]

\* the body of handleNumberedAck's try block: the pending entry is removed
\* before the payload is parsed
\* handleNumberedAck that leaves the resolved entry pending
HandleNumberedAckTry_KeepsEntry(s, digits, body) ==
    LET id == ParseInt(SubSeq(digits, 3, Len(digits)))
        pendingAck == s.pendingAcks[id]
        p == JsonParse(body)
    IN IF ~p.ok
       THEN Throw(s)
       ELSE LET ackData == p.v
            IN CASE pendingAck.event = "joinRoom" -> RequestMessageHistory(s)
                 [] pendingAck.event = "getMessageHistory" ->
                      IF Nullish(ackData) THEN Throw(s)
                      ELSE IF IsArray(At0(ackData))
                      THEN SetHistory(s, At0(ackData))
                      ELSE s
                 [] pendingAck.event = "sendMessage" ->
                      IF Nullish(ackData) THEN Throw(s)
                      ELSE IF Truthy(At0(ackData))
                              /\ Truthy(Get(At0(ackData), "error"))
                      THEN Emit(s, "serverError", At0(ackData))
                      ELSE s
                 [] OTHER -> s

HandleNumberedAckTry(s, digits, body) ==
    LET id == ParseInt(SubSeq(digits, 3, Len(digits)))
        pendingAck == s.pendingAcks[id]
        s1 == IF pendingAck.event # "none"
              THEN [s EXCEPT !.pendingAcks[id] = NoAck]
              ELSE s
        p == JsonParse(body)
    IN IF ~p.ok
       THEN Throw(s1)
       ELSE LET ackData == p.v
            IN CASE pendingAck.event = "joinRoom" -> RequestMessageHistory(s1)
                 [] pendingAck.event = "getMessageHistory" ->
                      IF Nullish(ackData) THEN Throw(s1)
                      ELSE IF IsArray(At0(ackData))
                      THEN SetHistory(s1, At0(ackData))
                      ELSE s1
                 [] pendingAck.event = "sendMessage" ->
                      IF Nullish(ackData) THEN Throw(s1)
                      ELSE IF Truthy(At0(ackData))
                              /\ Truthy(Get(At0(ackData), "error"))
                      THEN Emit(s1, "serverError", At0(ackData))
                      ELSE s1
                 [] OTHER -> s1

HandleNumberedAck(s, digits, body) ==
    Catch(HandleNumberedAckTry(s, digits, body))

NumberedAckTypes == {<<4, 3, d>> : d \in 0..9}

\* handleMessage: the switch on the leading run of digits
HandleMessage(s, frame) ==
    LET messageType == frame.digits
        body == frame.body
    IN CASE messageType = <<0>> -> HandleConnect(s, body)
         [] messageType = <<4, 0>> -> HandleConnectedAck(s)
         [] messageType = <<4, 1>> -> HandleDisconnect(s, body)
         [] messageType = <<4, 2>> -> HandleEvent(s, body)
         [] messageType = <<4, 3>> -> HandleEventWithAck(s, body)
         [] messageType \in NumberedAckTypes ->
              HandleNumberedAck(s, messageType, body)
         [] messageType = <<2>> -> SendPong(s)
         [] messageType = <<3>> -> s
         [] OTHER -> s

(***************************************************************************)
(* The public queries.                                                     *)
(***************************************************************************)
\* Array.prototype.slice(-n)
SliceLast(items, n) ==
    IF n >= Len(items) THEN items
    ELSE SubSeq(items, Len(items) - n + 1, Len(items))

\* getMessages(limit); limit 0 is the absent (or falsy) argument
GetMessages(items, limit) ==
    IF limit # 0 THEN SliceLast(items, limit) ELSE items

\* getMessages() without a limit handing out this.messageHistory itself
GetMessagesArray_Live(s, limit) ==
    IF limit # 0
    THEN [live |-> FALSE, items |-> SliceLast(s.messageHistory.items, limit)]
    ELSE [live |-> TRUE, items |-> <<>>]

\* the array getMessages(limit) returns: slice and spread both build a new
\* array (live: the array is this.messageHistory itself)
GetMessagesArray(s, limit) ==
    [live |-> FALSE, items |-> GetMessages(s.messageHistory.items, limit)]

\* isActive()
IsActive == isConnected

\* pumpchat-queue, a drain that leaves the messages array as it is
ExtractMessages_NoClear(s) ==
    [result |-> [i \in 1..Len(s.queue) |->
                    [sender |-> Get(s.queue[i], "username"),
                     text |-> Get(s.queue[i], "message")]],
     s |-> s]

\* pumpchat-queue, extractMessages(): the {sender, text} pairs of the
\* messages array, which is then replaced by an empty one; message.username
\* on null or undefined is a TypeError that leaves the array as it is
ExtractMessages(s) ==
    IF \E i \in 1..Len(s.queue) : Nullish(s.queue[i])
    THEN [result |-> <<>>, s |-> Throw(s)]
    ELSE [result |-> [i \in 1..Len(s.queue) |->
                         [sender |-> Get(s.queue[i], "username"),
                          text |-> Get(s.queue[i], "message")]],
          s |-> [s EXCEPT !.queue = <<>>]]

(***************************************************************************)
(* The callbacks and the public operations, as state transformers.         *)
(***************************************************************************)
\* the WebSocketClient 'connect' handler, for the new handle h;
\* setupConnectionHandlers starts one more sweep interval
OnConnect(s, h) ==
    LET s1 == [s EXCEPT !.connection = h, !.isConnected = TRUE,
                        !.reconnectAttempts = 0, !.delays = <<>>]
        s2 == Emit(s1, "connected", Undefined)
    IN [s2 EXCEPT !.sweeps = @ + 1]

\* the WebSocketClient 'connectFailed' handler
OnConnectFailed(s) ==
    LET s1 == Emit(s, "error", Undefined)
    IN IF s1.thrown THEN s1 ELSE AttemptReconnect(s1)

\* the connection 'error' handler
OnConnectionError(s) == Emit(s, "error", Undefined)

\* the connection 'close' handler
OnClose(s) ==
    LET s1 == [s EXCEPT !.isConnected = FALSE, !.connection = Null]
        s2 == Emit(s1, "disconnected", Undefined)
        s3 == StopPing(s2)
    IN AttemptReconnect(s3)

\* connection.close(): the close event is delivered later
CloseTransport(s, h) ==
    IF s.transport[h] = "open" THEN [s EXCEPT !.transport[h] = "closing"] ELSE s

\* disconnect()
Disconnect(s) ==
    LET s1 == StopPing(s)
    IN IF s1.connection # Null THEN CloseTransport(s1, s1.connection) ELSE s1

\* sendMessage(message)
SendMessage(s, message) ==
    IF s.isConnected THEN SendRequest(s, "sendMessage", message) ELSE s

\* a sweep that also removes the entries exactly AckTimeout old
CleanupStaleAcks_Inclusive(s) ==
    [s EXCEPT !.pendingAcks =
        [id \in DOMAIN @ |->
            IF @[id].event # "none" /\ s.now - @[id].timestamp >= AckTimeout
            THEN NoAck ELSE @[id]]]

\* cleanupStaleAcks()
CleanupStaleAcks(s) ==
    [s EXCEPT !.pendingAcks =
        [id \in DOMAIN @ |->
            IF @[id].event # "none" /\ s.now - @[id].timestamp > AckTimeout
            THEN NoAck ELSE @[id]]]

(***************************************************************************)
(* ConnectionState of the specification (section 4.3); the class keeps no  *)
(* such field, so the model follows it beside the code.                    *)
(***************************************************************************)
NextConnectionState(st, trig) ==
    CASE trig = "connect" /\ st = "Disconnected" -> "Connecting"
      [] trig = "open" /\ st = "Connecting" -> "Handshaking"
      [] trig = "failed" /\ st = "Connecting" -> "Disconnected"
      [] trig = "connectInfo" /\ st = "Handshaking" -> "Joining"
      [] trig = "joined" /\ st = "Joining" -> "FetchingHistory"
      [] trig = "history" /\ st = "FetchingHistory" -> "Active"
      [] trig \in {"closed", "disconnect"} -> "Disconnected"
      [] OTHER -> st

Emitted(r, name) == \E i \in 1..Len(r.evs) : r.evs[i].name = name

Wrote(r, event) ==
    \E i \in 1..Len(r.out) : r.out[i].t = "42" /\ r.out[i].event = event

\* what a handled frame means to the session state machine
FrameTrigger(r, frame) ==
    IF Emitted(r, "disconnected") THEN "closed"
    ELSE IF Emitted(r, "messageHistory") THEN "history"
    ELSE IF Wrote(r, "getMessageHistory") THEN "joined"
    ELSE IF frame.digits = <<0>> /\ ~r.thrown THEN "connectInfo"
    ELSE "none"

Track(r, trig) == [r EXCEPT !.connState = NextConnectionState(@, trig)]

(***************************************************************************)
(* Actions: one per call of the caller and per callback of the runtime.    *)
(* An uncaught exception ends the Node process: nothing runs after it.     *)
(***************************************************************************)
Handles == DOMAIN transport

FreshHandle == CHOOSE h \in Handles :
    /\ transport[h] = "unused"
    /\ \A g \in Handles : g < h => transport[g] # "unused"

\* the caller calls connect()
CallConnect ==
    /\ ~thrown
    /\ calls < cap.calls
    /\ connects < cap.connects
    /\ Apply(Track([Connect(Begin) EXCEPT !.calls = @ + 1], "connect"))

\* a transport attempt succeeds: the 'connect' event
TransportOpen ==
    /\ ~thrown
    /\ connecting > 0
    /\ LET h == FreshHandle
           s == [Begin EXCEPT !.connecting = @ - 1, !.transport[h] = "open"]
       IN Apply(Track(OnConnect(s, h), "open"))

\* a transport attempt fails: the 'connectFailed' event
TransportFailed ==
    /\ ~thrown
    /\ connecting > 0
    /\ LET s == [Begin EXCEPT !.connecting = @ - 1]
       IN Apply(Track(OnConnectFailed(s), "failed"))

\* a connection ends (by the peer, the network, or after close()): 'close'
TransportClose ==
    /\ ~thrown
    /\ \E h \in Handles :
        /\ transport[h] \in {"open", "closing"}
        /\ LET s == [Begin EXCEPT !.transport[h] = "closed"]
           IN Apply(Track(OnClose(s), "closed"))

\* the connection reports an error: 'error'
TransportError ==
    /\ ~thrown
    /\ \E h \in Handles :
        /\ transport[h] = "open"
        /\ Apply(OnConnectionError(Begin))

\* the caller calls disconnect()
CallDisconnect ==
    /\ ~thrown
    /\ Apply(Track([Disconnect(Begin) EXCEPT !.stale = timers], "disconnect"))

\* the caller calls sendMessage(text)
CallSendMessage ==
    /\ ~thrown
    /\ sends < cap.sends
    /\ \E text \in {"hi"} :
        Apply(SendMessage([Begin EXCEPT !.sends = @ + 1], text))

\* the caller calls getMessages(limit), or getMessages() (limit 0), and keeps
\* the array
CallGetMessages ==
    /\ ~thrown
    /\ IsArray(messageHistory)
    /\ \E limit \in 0..Len(messageHistory.items) :
        LET a == GetMessagesArray(Begin, limit)
        IN Apply([Begin EXCEPT !.held =
                      [called |-> TRUE, live |-> a.live, items |-> a.items,
                       limit |-> limit, base |-> messageHistory.items,
                       marks |-> 0]])

\* what the caller pushes onto the array it holds
Mark == JStr("mark")

\* the caller mutates the array it holds: held.push(mark)
CallerMutates ==
    /\ ~thrown
    /\ held.called
    /\ held.marks < MaxMarks
    /\ Apply(IF held.live
             THEN [Begin EXCEPT !.messageHistory =
                                    JArr(Append(@.items, Mark)),
                                !.held.marks = @ + 1]
             ELSE [Begin EXCEPT !.held.items = Append(@, Mark),
                                !.held.marks = @ + 1])

\* a reconnect timeout fires: this.connect(); the timeout is one scheduled
\* before the last disconnect() (old) or after it
ReconnectTimer ==
    /\ ~thrown
    /\ timers > 0
    /\ connects < cap.connects
    /\ \E old \in BOOLEAN :
        /\ IF old THEN stale > 0 ELSE timers > stale
        /\ LET s == [Begin EXCEPT !.timers = @ - 1,
                                  !.stale = IF old THEN @ - 1 ELSE @]
           IN Apply(Track(Connect(s), "connect"))

\* the keepalive interval fires: send('2')
PingTick ==
    /\ ~thrown
    /\ pingInterval # Null
    /\ Apply(Send(Begin, [t |-> "2"]))

\* a sweep interval fires
Sweep ==
    /\ ~thrown
    /\ sweeps > 0
    /\ Apply(CleanupStaleAcks(Begin))

\* time passes
Tick ==
    /\ ~thrown
    /\ now < cap.time
    /\ Apply([Begin EXCEPT !.now = @ + cap.step])

\* the next newMessage frame: messages are distinct, numbered in arrival order
NewMessageFrame(i) ==
    Frame(<<4, 2>>, Json(JArr(<<JStr("newMessage"), Msg(i)>>)))

\* a chat message as the server sends it
ChatMessage(i, user, text) ==
    JObj([id |-> JNum(i), username |-> JStr(user), message |-> JStr(text)])

\* a newMessage frame with a chat message of one of two users arrives
ReceiveChatMessage ==
    /\ ~thrown
    /\ msgCount < cap.msgs
    /\ frames < cap.frames
    /\ \E h \in Handles, user \in {"ann", "bob"}, text \in {"gm", "gn"} :
        /\ transport[h] = "open"
        /\ LET frame == Frame(<<4, 2>>,
                              Json(JArr(<<JStr("newMessage"),
                                          ChatMessage(msgCount + 1, user,
                                                      text)>>)))
               r == HandleMessage([Begin EXCEPT !.frames = @ + 1,
                                                !.msgCount = @ + 1], frame)
           IN Apply(Track(r, FrameTrigger(r, frame)))

\* the drains made so far
Drains == SelectSeq(journal, LAMBDA e : e.kind = "drain")

\* the scheduler calls extractMessages()
CallExtractMessages ==
    /\ ~thrown
    /\ Len(Drains) < MaxDrains
    /\ LET e == ExtractMessages(Begin)
       IN Apply([e.s EXCEPT !.journal =
                     Append(@, [kind |-> "drain", result |-> e.result])])

\* a text frame arrives on an open connection: the 'message' handler
Receive(frame) ==
    /\ ~thrown
    /\ frames < cap.frames
    /\ \E h \in Handles :
        /\ transport[h] = "open"
        /\ LET r == HandleMessage([Begin EXCEPT !.frames = @ + 1], frame)
               g == IF frame.digits = <<4, 1>> /\ connState = "Active"
                    THEN served \cup {h} ELSE served
           IN Apply(Track([r EXCEPT !.served = g], FrameTrigger(r, frame)))

\* a newMessage frame arrives
ReceiveNewMessage ==
    /\ ~thrown
    /\ msgCount < cap.msgs
    /\ frames < cap.frames
    /\ \E h \in Handles :
        /\ transport[h] = "open"
        /\ LET frame == NewMessageFrame(msgCount + 1)
               r == HandleMessage([Begin EXCEPT !.frames = @ + 1,
                                                !.msgCount = @ + 1], frame)
           IN Apply(Track(r, FrameTrigger(r, frame)))

(***************************************************************************)
(* Construction.                                                           *)
(***************************************************************************)
\* options.messageHistoryLimit || 100; option 0 is the absent (falsy) one
HistoryLimitOf(option) == IF option # 0 THEN option ELSE DefaultHistoryLimit

Budget(nConnects, nCalls, nFrames, nMsgs, nSends, time) ==
    [connects |-> nConnects, calls |-> nCalls, frames |-> nFrames,
     msgs |-> nMsgs, sends |-> nSends, time |-> time, logged |-> FALSE,
     step |-> SweepPeriod, turns |-> 0]

\* nothing allocated yet: n allocations so far, seq[id] the number of the
\* allocation that last handed out id, last the latest allocation (its id,
\* whether the id held a pending entry, how many allocations ago the id was
\* last handed out, how many entries were pending), owner[id] the connection
\* that was current when the request with that id was written
NoAllocation ==
    [n |-> 0, seq |-> [id \in 0..(AckIdModulus - 1) |-> 0],
     owner |-> [id \in 0..(AckIdModulus - 1) |-> Null],
     last |-> [id |-> 0, occupied |-> FALSE, gap |-> 0, inflight |-> 0]]

\* nothing logged
NoLog == [out |-> <<>>, evs |-> <<>>, states |-> <<>>]

\* the caller holds no array
NotHeld ==
    [called |-> FALSE, live |-> FALSE, items |-> <<>>, limit |-> 0,
     base |-> <<>>, marks |-> 0]

\* the scheduler before startScheduler(): empty collections, no turn started;
\* clock is the value of the last new Date() taken for a message
NoSched ==
    [rooms |-> <<>>, msgs |-> {}, inflight |-> {}, clock |-> 0, turns |-> <<>>]

\* the state after new PumpChatClient(options), before any call
Constructed(budget, options) ==
    /\ connection = Null
    /\ isConnected = FALSE
    /\ messageHistory = JArr(<<>>)
    /\ \E option \in options : messageHistoryLimit = HistoryLimitOf(option)
    /\ pingInterval = Null
    /\ reconnectAttempts = 0
    /\ ackId = 0
    /\ pendingAcks = [id \in 0..(AckIdModulus - 1) |-> NoAck]
    /\ transport = [h \in 1..budget.connects |-> "unused"]
    /\ connecting = 0
    /\ timers = 0
    /\ sweeps = 0
    /\ now = 0
    /\ thrown = FALSE
    /\ hasErrorListener \in BOOLEAN
    /\ out = <<>>
    /\ evs = <<>>
    /\ connState = "Disconnected"
    /\ delays = <<>>
    /\ giveUps = 0
    /\ msgCount = 0
    /\ histSet = FALSE
    /\ calls = 0
    /\ connects = 0
    /\ frames = 0
    /\ sends = 0
    /\ stale = 0
    /\ served = {}
    /\ alloc = NoAllocation
    /\ pingTimers = [live |-> 0, set |-> 0, cleared |-> 0]
    /\ log = NoLog
    /\ held = NotHeld
    /\ queue = <<>>
    /\ journal = <<>>
    /\ sched = NoSched
    /\ cap = budget

(***************************************************************************)
(* Inbound frames the runs draw from.                                      *)
(***************************************************************************)
\* a history of n messages, distinct from the newMessage ones
HistoryOf(n) == [i \in 1..n |-> Msg(100 + i)]

ConnectInfoFrame == Frame(<<0>>, Json(JObj([pingInterval |-> JNum(25000)])))

HandshakeAckFrame == Frame(<<4, 0>>, Empty)

\* 43<d>[{"error":null}]
AckFrame(d) == Frame(<<4, 3, d>>, Json(JArr(<<JObj([error |-> JNull])>>)))

\* 43<d>[[...messages]]
HistoryAckFrame(d, n) == Frame(<<4, 3, d>>, Json(JArr(<<JArr(HistoryOf(n))>>)))

\* 43[[...messages]]
GenericHistoryFrame(n) == Frame(<<4, 3>>, Json(JArr(<<JArr(HistoryOf(n))>>)))

(***************************************************************************)
(* SpecBuffer: one session receiving chat messages and history responses.  *)
(***************************************************************************)
BufferFrames ==
    {HandshakeAckFrame, AckFrame(0)}
        \cup {HistoryAckFrame(1, n) : n \in 0..(MaxLimit + 1)}
        \cup {GenericHistoryFrame(n) : n \in 0..(MaxLimit + 1)}

InitBuffer ==
    Constructed(Budget(MaxConnectsBuffer, 1, MaxFramesBuffer, MaxMsgs, 0, 0),
                0..MaxLimit)

NextBuffer ==
    \/ CallConnect
    \/ TransportOpen
    \/ ReceiveNewMessage
    \/ \E frame \in BufferFrames : Receive(frame)

SpecBuffer == InitBuffer /\ [][NextBuffer]_vars

(***************************************************************************)
(* C1: in every reachable state the History Buffer holds at most           *)
(* messageHistoryLimit entries, also after a history response that carries *)
(* more messages than the capacity.                                        *)
(***************************************************************************)
C1_BufferWithinCapacity ==
    IsArray(messageHistory)
        => Len(messageHistory.items) <= messageHistoryLimit

(***************************************************************************)
(* C2: starting from the empty buffer, once M > N distinct newMessage      *)
(* frames have arrived in order (and nothing else has written the buffer), *)
(* getMessages() is exactly the last N of them, in arrival order.          *)
(***************************************************************************)
LastArrived(m, n) == [i \in 1..n |-> Msg(m - n + i)]

C2_LastNInArrivalOrder ==
    (~histSet /\ msgCount > messageHistoryLimit)
        => /\ IsArray(messageHistory)
           /\ GetMessages(messageHistory.items, 0)
                  = LastArrived(msgCount, messageHistoryLimit)

\* two evictions have happened on a buffer only newMessage frames wrote
C2_Witness ==
    /\ ~histSet
    /\ msgCount >= messageHistoryLimit + 2
    /\ Len(messageHistory.items) = messageHistoryLimit

(***************************************************************************)
(* SpecBackoff: transport attempts that fail, or open and close again,     *)
(* and the reconnect timeouts between them.                                *)
(***************************************************************************)
InitBackoff ==
    Constructed(Budget(MaxConnectsBackoff, MaxCallsBackoff, 0, 0, 0, 0), {0})

NextBackoff ==
    \/ CallConnect
    \/ TransportOpen
    \/ TransportFailed
    \/ TransportClose
    \/ ReconnectTimer

SpecBackoff == InitBackoff /\ [][NextBackoff]_vars

\* one connect() by the caller and no transport ever opened: every attempt
\* so far is in flight or has failed
PureFailureRun == calls = 1 /\ \A h \in Handles : transport[h] = "unused"

Failures == connects - connecting

(***************************************************************************)
(* C6: in a run of consecutive failures, no give-up event is emitted up to *)
(* the fifth failure; the sixth failure schedules nothing and emits the    *)
(* give-up event, exactly once; from then on no timeout and no attempt is  *)
(* pending and the client is disconnected, until the caller calls          *)
(* connect() again.                                                        *)
(***************************************************************************)
C6_GiveUpOnceAfterFive ==
    PureFailureRun =>
        /\ Failures <= 6
        /\ (Failures <= 5) => giveUps = 0
        /\ (Failures = 6) =>
               /\ giveUps = 1
               /\ reconnectAttempts = 5
               /\ timers = 0
               /\ connecting = 0
               /\ ~isConnected
               /\ connection = Null
               /\ connState = "Disconnected"

\* the sixth consecutive failure has happened
C6_Witness ==
    /\ PureFailureRun
    /\ Failures = 6
    /\ giveUps = 1
    /\ Emitted(Cur, "maxReconnectAttemptsReached")

(***************************************************************************)
(* C7: the delays scheduled since the attempt counter was last reset are,  *)
(* in order, 2000, 4000, 8000, 16000, 30000 (a prefix of that sequence,    *)
(* one delay per counted attempt).                                         *)
(***************************************************************************)
C7_DelaySequence ==
    /\ Len(delays) = reconnectAttempts
    /\ Len(delays) <= 5
    /\ delays = SubSeq(<<2000, 4000, 8000, 16000, 30000>>, 1, Len(delays))

\* five delays were scheduled in a row
C7_Witness == Len(delays) = 5 /\ delays[5] = 30000 /\ timers = 1

(***************************************************************************)
(* SpecSession: sessions that handshake, join, fetch history, are ended by *)
(* the server, the network or the caller, and reconnect.                   *)
(***************************************************************************)
\* 41
DisconnectFrame == Frame(<<4, 1>>, Empty)

\* a recognized prefix followed by text that is not JSON
MalformedFrames ==
    {Frame(digits, Bad) :
        digits \in {<<0>>, <<4, 0>>, <<4, 1>>, <<4, 2>>, <<4, 3>>}
                       \cup NumberedAckTypes}

SessionFrames ==
    {ConnectInfoFrame, HandshakeAckFrame, AckFrame(0), HistoryAckFrame(1, 1),
     DisconnectFrame}

InitSession ==
    Constructed(Budget(MaxConnectsSession, 1, MaxFramesSession, 0,
                       MaxSendsSession, 0), {0})

NextSession ==
    \/ CallConnect
    \/ CallSendMessage
    \/ TransportOpen
    \/ TransportClose
    \/ ReconnectTimer
    \/ PingTick
    \/ \E frame \in SessionFrames : Receive(frame)

SpecSession == InitSession /\ [][NextSession]_vars

(***************************************************************************)
(* SpecLifecycle: the caller connects and disconnects while transport      *)
(* attempts fail, open, report errors and close.                           *)
(***************************************************************************)
InitLifecycle ==
    Constructed(Budget(MaxConnectsLifecycle, MaxCallsLifecycle, 0, 0, 0, 0),
                {0})

NextLifecycle ==
    \/ CallConnect
    \/ CallDisconnect
    \/ TransportOpen
    \/ TransportFailed
    \/ TransportClose
    \/ TransportError
    \/ ReconnectTimer

SpecLifecycle == InitLifecycle /\ [][NextLifecycle]_vars

(***************************************************************************)
(* SpecCodec: one session receiving well-formed and malformed frames.      *)
(***************************************************************************)
CodecFrames ==
    {ConnectInfoFrame, HandshakeAckFrame, AckFrame(0), HistoryAckFrame(1, 1)}
        \cup MalformedFrames

InitCodec ==
    Constructed(Budget(MaxConnectsCodec, 1, MaxFramesCodec, 0, 0, 0), {0})

NextCodec ==
    \/ CallConnect
    \/ TransportOpen
    \/ PingTick
    \/ \E frame \in CodecFrames : Receive(frame)

SpecCodec == InitCodec /\ [][NextCodec]_vars

EmittedNow(name) == \E i \in 1..Len(evs) : evs[i].name = name

(***************************************************************************)
(* C3: sendMessage called in a state other than Active writes no frame and *)
(* leaves the pending-acknowledgment table and the ack counter unchanged.  *)
(***************************************************************************)
C3_SendOnlyWhenActive ==
    [][(connState # "Active" /\ CallSendMessage)
          => (out' = <<>> /\ pendingAcks' = pendingAcks /\ ackId' = ackId)]_vars

(***************************************************************************)
(* C4: the close of a transport that the caller's disconnect() closed does *)
(* not run the reconnect policy: no tryReconnect event, the attempt        *)
(* counter unchanged, no timeout scheduled.                                *)
(***************************************************************************)
C4_CallerCloseNoReconnect ==
    [][\A h \in Handles :
          (transport[h] = "closing" /\ transport'[h] = "closed")
              => /\ ~EmittedNow("tryReconnect")'
                 /\ reconnectAttempts' = reconnectAttempts
                 /\ timers' = timers]_vars

(***************************************************************************)
(* C5: a reconnect timeout that was pending when disconnect() was called   *)
(* starts no transport attempt when it fires.                              *)
(***************************************************************************)
C5_DisconnectSuppressesTimeout ==
    [][(timers' = timers - 1 /\ stale' = stale - 1)
          => (connecting' = connecting /\ connects' = connects)]_vars

(***************************************************************************)
(* C8: a failed transport attempt always runs the reconnect policy (a      *)
(* timeout is scheduled, or the give-up event is emitted) and no exception *)
(* leaves the client, whatever listeners the caller registered.            *)
(***************************************************************************)
C8_ConnectFailedReconnects ==
    [][TransportFailed
          => /\ ~thrown'
             /\ \/ timers' = timers + 1
                \/ giveUps' = giveUps + 1]_vars

(***************************************************************************)
(* C9: a 41 frame received while Active stops the keepalive timer and      *)
(* schedules one reconnect; the close event of that same transport, when   *)
(* it follows, schedules no second one.                                    *)
(***************************************************************************)
C9_ServerDisconnectOnce ==
    [][/\ (connState = "Active" /\ Receive(DisconnectFrame))
             => (pingInterval' = Null /\ timers' = timers + 1)
       /\ \A h \in Handles :
             (h \in served /\ transport[h] = "open" /\ transport'[h] = "closed")
                 => (timers' = timers /\ reconnectAttempts' = reconnectAttempts)
      ]_vars

(***************************************************************************)
(* C10: a frame with a recognized prefix and a malformed payload raises no *)
(* exception out of handleMessage.                                         *)
(***************************************************************************)
C10_MalformedNeverThrows ==
    [][\A frame \in MalformedFrames : Receive(frame) => ~thrown']_vars


(***************************************************************************)
(* C11: a frame with a recognized prefix and a malformed payload changes   *)
(* no client state: the pendingAcks table, the ack counter, the History    *)
(* Buffer, the connection flags and the timers are the same before and     *)
(* after, no event is emitted and no frame is written.                     *)
(***************************************************************************)
C11_MalformedChangesNothing ==
    [][\A frame \in MalformedFrames :
          Receive(frame) =>
              /\ pendingAcks' = pendingAcks
              /\ ackId' = ackId
              /\ messageHistory' = messageHistory
              /\ isConnected' = isConnected
              /\ connection' = connection
              /\ pingInterval' = pingInterval
              /\ timers' = timers
              /\ evs' = <<>>
              /\ out' = <<>>]_vars

\* the case of the numbered acknowledgment alone: a malformed 43<id> frame
\* leaves the pending entry of <id> in the table
C11_MalformedAckKeepsPending ==
    [][\A digits \in NumberedAckTypes :
          Receive(Frame(digits, Bad)) => pendingAcks' = pendingAcks]_vars

(***************************************************************************)
(* SpecCorrelator: one session whose requests (joinRoom, getMessageHistory,*)
(* sendMessage) take correlation ids while responses arrive, time passes   *)
(* and the sweep interval fires.                                           *)
(***************************************************************************)
CorrelatorFrames ==
    {HandshakeAckFrame, AckFrame(0), AckFrame(1)}

\* the clock moves once, to the first sweep that finds the entries recorded
\* at time 0 stale
InitCorrelator ==
    Constructed([Budget(1, 1, MaxFramesCorrelator, 0, MaxSendsCorrelator,
                        AckTimeout + SweepPeriod)
                     EXCEPT !.step = AckTimeout + SweepPeriod], {0})

NextCorrelator ==
    \/ CallConnect
    \/ TransportOpen
    \/ CallSendMessage
    \/ Sweep
    \/ Tick
    \/ \E frame \in CorrelatorFrames : Receive(frame)

SpecCorrelator == InitCorrelator /\ [][NextCorrelator]_vars

(***************************************************************************)
(* C12: a correlation id is allocated to a new request only if no pending  *)
(* acknowledgment occupies it at that moment, for any sequence of          *)
(* allocations, responses and sweeps.                                      *)
(***************************************************************************)
C12_AllocatedOnlyWhenFree == ~alloc.last.occupied

\* the case the specification allows for: an occupied id is taken only when
\* all ten ids are occupied
C12_OccupiedOnlyWhenExhausted ==
    alloc.last.occupied => alloc.last.inflight = AckIdModulus

\* what the cyclic counter does ensure: an occupied id is taken only when the
\* nine other ids were handed out since its entry was recorded
C12_OccupiedOnlyOnWrapAround ==
    alloc.last.occupied => alloc.last.gap = AckIdModulus

(***************************************************************************)
(* SpecSweep: requests are recorded at different times, and the sweep      *)
(* interval fires as the clock advances one sweep period at a time.        *)
(***************************************************************************)
SweepFrames == {HandshakeAckFrame, AckFrame(0)}

InitSweep ==
    Constructed(Budget(1, 1, MaxFramesSweep, 0, MaxSendsSweep,
                       MaxTicksSweep * SweepPeriod), {0})

NextSweep ==
    \/ CallConnect
    \/ TransportOpen
    \/ CallSendMessage
    \/ Sweep
    \/ Tick
    \/ \E frame \in SweepFrames : Receive(frame)

SpecSweep == InitSweep /\ [][NextSweep]_vars

\* the pending entry of id was created before time t
CreatedBefore(id, t) ==
    pendingAcks[id].event # "none" /\ pendingAcks[id].timestamp < t

(***************************************************************************)
(* C13: a sweep (cleanupStaleAcks) run at time T removes every pending     *)
(* acknowledgment created before T - 30000 and leaves every other entry,   *)
(* and the ack counter, untouched.                                         *)
(***************************************************************************)
C13_SweepRemovesExactlyStale ==
    [][Sweep =>
          /\ \A id \in DOMAIN pendingAcks :
                 pendingAcks'[id] = IF CreatedBefore(id, now - 30000)
                                    THEN NoAck ELSE pendingAcks[id]
          /\ ackId' = ackId]_vars

\* no response has arrived, a sweep has removed a request's entry and has
\* left the entry that is exactly 30000 old
C13_Witness ==
    /\ frames = 0
    /\ \E id \in DOMAIN pendingAcks :
           alloc.seq[id] > 0 /\ pendingAcks[id] = NoAck
    /\ \E id \in DOMAIN pendingAcks :
           /\ pendingAcks[id].event # "none"
           /\ pendingAcks[id].timestamp = now - 30000

(***************************************************************************)
(* SpecScenario: the first transport of a new client receives the four     *)
(* frames 0{"pingInterval":1000}, 40, 430[{"error":null}],                 *)
(* 431[[{"id":"m1"}]] in this order, each response within the 30000 ms its *)
(* request stays pending; pings, sweeps and the clock run in between.      *)
(***************************************************************************)
ScenarioFrames ==
    <<Frame(<<0>>, Json(JObj([pingInterval |-> JNum(1000)]))),
      Frame(<<4, 0>>, Empty),
      Frame(<<4, 3, 0>>, Json(JArr(<<JObj([error |-> JNull])>>))),
      Frame(<<4, 3, 1>>, Json(JArr(<<JArr(<<Msg(1)>>)>>)))>>

InitScenario ==
    Constructed([Budget(1, 1, Len(ScenarioFrames), 0, 0, AckTimeout)
                     EXCEPT !.logged = TRUE], 0..MaxLimit)

\* the next frame of the scenario arrives
ReceiveScenarioFrame ==
    /\ frames < Len(ScenarioFrames)
    /\ Receive(ScenarioFrames[frames + 1])

NextScenario ==
    \/ CallConnect
    \/ TransportOpen
    \/ ReceiveScenarioFrame
    \/ PingTick
    \/ Sweep
    \/ Tick

SpecScenario == InitScenario /\ [][NextScenario]_vars

\* the messageHistory events emitted so far
HistoryEvents == SelectSeq(log.evs, LAMBDA e : e.name = "messageHistory")

\* how many times the session entered Active so far
TimesActive == Len(SelectSeq(log.states, LAMBDA st : st = "Active"))

(***************************************************************************)
(* C14: given the inbound frames, in order, 0{"pingInterval":1000}, 40,    *)
(* 430[{"error":null}], 431[[{"id":"m1",...}]] on a freshly opened         *)
(* transport, the client reaches Active exactly once and emits exactly one *)
(* messageHistory event whose payload is one message with id m1; the       *)
(* outbound frames are, in order, the 40 handshake, 420["joinRoom",...]    *)
(* and 421["getMessageHistory",...].                                       *)
(***************************************************************************)
C14_HandshakeScenario ==
    /\ frames < 4 => (TimesActive = 0 /\ HistoryEvents = <<>>)
    /\ frames = 4 =>
           /\ connState = "Active"
           /\ TimesActive = 1
           /\ HistoryEvents = <<Event("messageHistory", JArr(<<Msg(1)>>))>>
           /\ Len(log.out) = 3
           /\ log.out[1] = [t |-> "40"]
           /\ log.out[2].t = "42" /\ log.out[2].id = 0
           /\ log.out[2].event = "joinRoom"
           /\ log.out[3].t = "42" /\ log.out[3].id = 1
           /\ log.out[3].event = "getMessageHistory"

\* the four frames have arrived, the last one as the latest step, and the
\* keepalive ping is running at the period the server gave
C14_Witness ==
    /\ frames = 4
    /\ EmittedNow("messageHistory")
    /\ pingInterval = Period(JNum(1000))
    /\ now > 0

(***************************************************************************)
(* C15: isActive() returns true exactly when the ConnectionState is        *)
(* Active; it returns false in Disconnected, Connecting, Handshaking,      *)
(* Joining and FetchingHistory.                                            *)
(***************************************************************************)
C15_IsActiveIffActive == IsActive <=> connState = "Active"

(***************************************************************************)
(* C16: connect() is idempotent while the client is already connecting or  *)
(* connected: a second connect() call in those states initiates no         *)
(* additional transport connection, so at most one connection results.     *)
(***************************************************************************)
C16_ConnectIdempotent ==
    [][(CallConnect /\ connState # "Disconnected") =>
          (connecting' = connecting /\ connects' = connects)]_vars

(***************************************************************************)
(* C17: disconnect() can be called in any state without raising, and after *)
(* it returns no periodic timer of the client is live, neither the         *)
(* keepalive ping interval nor any stale-acknowledgment sweep interval;    *)
(* calling it a second time changes nothing.                               *)
(***************************************************************************)
C17_DisconnectStopsTimers ==
    [][CallDisconnect =>
          /\ ~thrown'
          /\ pingInterval' = Null
          /\ sweeps' = 0]_vars

(***************************************************************************)
(* C18: sendMessage(text) invoked while the state is not Active surfaces   *)
(* an error event to the caller, in addition to sending nothing.           *)
(***************************************************************************)
C18_SendWhenInactiveEmitsError ==
    [][(CallSendMessage /\ connState # "Active") =>
          (Emitted([evs |-> evs'], "error") /\ out' = <<>>)]_vars

(***************************************************************************)
(* SpecSnapshot: the caller takes arrays from getMessages, keeps them and  *)
(* pushes onto them while chat messages and history responses arrive.      *)
(***************************************************************************)
SnapshotFrames == {HandshakeAckFrame, AckFrame(0), HistoryAckFrame(1, 2)}

InitSnapshot ==
    Constructed(Budget(1, 1, MaxFramesSnapshot, MaxMsgsSnapshot, 0, 0),
                1..MaxLimit)

NextSnapshot ==
    \/ CallConnect
    \/ TransportOpen
    \/ ReceiveNewMessage
    \/ CallGetMessages
    \/ CallerMutates
    \/ \E frame \in SnapshotFrames : Receive(frame)

SpecSnapshot == InitSnapshot /\ [][NextSnapshot]_vars

\* what the caller reads in the array it holds
HeldView == IF held.live THEN messageHistory.items ELSE held.items

\* the n most recent entries of items, in arrival order
MostRecent(items, n) == [i \in 1..n |-> items[Len(items) - n + i]]

\* what getMessages had to return on the buffer it was called on
Requested ==
    IF held.limit = 0 THEN held.base ELSE MostRecent(held.base, held.limit)

(***************************************************************************)
(* C19: for 1 <= limit <= buffer length, getMessages(limit) returns        *)
(* exactly the most recent limit entries in arrival order; getMessages()   *)
(* without a limit returns the whole buffer; in both cases the result is a *)
(* snapshot: messages received afterwards do not appear in it (the array   *)
(* holds what was returned, and then only what the caller pushed), and     *)
(* mutating it does not change the History Buffer.                         *)
(***************************************************************************)
C19_GetMessagesSnapshot ==
    /\ [](held.called =>
             HeldView = Requested \o [i \in 1..held.marks |-> Mark])
    /\ [][CallerMutates => messageHistory' = messageHistory]_vars

\* a limited and held result has seen a later message arrive and evict, and
\* the caller has pushed onto it
C19_Witness ==
    /\ held.called
    /\ held.limit >= 1
    /\ held.marks = 1
    /\ IsArray(messageHistory)
    /\ messageHistory.items # held.base
    /\ Len(held.base) = messageHistoryLimit
    /\ ~histSet

\* the same for getMessages() without a limit
C19_WitnessWhole ==
    /\ held.called
    /\ held.limit = 0
    /\ held.base # <<>>
    /\ held.marks = 1
    /\ IsArray(messageHistory)
    /\ messageHistory.items # held.base

(***************************************************************************)
(* SpecQueue: pumpchat-queue.  Chat messages arrive on the client's        *)
(* connection and reach the 'message' listener; the scheduler drains the   *)
(* queue at any moment.                                                    *)
(***************************************************************************)
InitQueue ==
    Constructed(Budget(1, 1, MaxMsgsQueue, MaxMsgsQueue, 0, 0), {0})

NextQueue ==
    \/ CallConnect
    \/ TransportOpen
    \/ ReceiveChatMessage
    \/ CallExtractMessages

SpecQueue == InitQueue /\ [][NextQueue]_vars

\* the {sender, text} pair of a chat message
PumpOf(m) == [sender |-> m.f.username, text |-> m.f.message]

\* the journal position of the last drain before position i, 0 if none
DrainBefore(i) ==
    LET before == {j \in 1..(i - 1) : journal[j].kind = "drain"}
    IN IF before = {} THEN 0 ELSE CHOOSE j \in before : \A k \in before : k <= j

\* the pairs of the messages delivered strictly between positions a and b
DeliveredBetween(a, b) ==
    [k \in 1..(b - a - 1) |-> PumpOf(journal[a + k].m)]

SetCookieFrame == Frame(<<4, 2>>, Json(JArr(<<JStr("setCookie")>>)))

\* the three payload shapes of a history of two messages: [m, m],
\* {"messages":[m, m]} and [[m, m]]
HistoryShapes ==
    {JArr(HistoryOf(2)),
     JObj([messages |-> JArr(HistoryOf(2))]),
     JArr(<<JArr(HistoryOf(2))>>)}

\* the same shapes as the first argument of the acknowledgment:
\* [[m, m]], [{"messages":[m, m]}] and [[[m, m]]]
WrappedShapes == {JArr(<<shape>>) : shape \in HistoryShapes}

\* a history response, correlated with request 0 or generic
HistoryResponses(shapes) ==
    {Frame(digits, Json(shape)) :
        digits \in {<<4, 3>>, <<4, 3, 0>>}, shape \in shapes}

\* generic acknowledgments without a message list: 43[{"error":"x"}] and
\* 43[{"id":1}]
NoListFrames ==
    {Frame(<<4, 3>>, Json(JArr(<<JObj([error |-> JStr("x")])>>))),
     Frame(<<4, 3>>, Json(JArr(<<Msg(1)>>)))}

HistoryFrames ==
    {HandshakeAckFrame, AckFrame(0), SetCookieFrame, DisconnectFrame}
        \cup HistoryResponses(HistoryShapes)
        \cup HistoryResponses(WrappedShapes) \cup NoListFrames

InitHistory ==
    Constructed(Budget(1, 1, MaxFramesHistory, MaxMsgsHistory, 0, 0), {0})

NextHistory ==
    \/ CallConnect
    \/ TransportOpen
    \/ ReceiveNewMessage
    \/ \E frame \in HistoryFrames : Receive(frame)

SpecHistory == InitHistory /\ [][NextHistory]_vars

\* the frame is generic, or answers a pending getMessageHistory request
AnswersHistoryRequest(frame) ==
    \/ frame.digits = <<4, 3>>
    \/ pendingAcks[frame.digits[3]].event = "getMessageHistory"

\* the step set the buffer to the two messages and emitted history-ready
HistoryInstalled ==
    /\ messageHistory' = JArr(HistoryOf(2))
    /\ evs' = <<Event("messageHistory", JArr(HistoryOf(2)))>>

(***************************************************************************)
(* C21: a history response populates the History Buffer and emits a        *)
(* history-ready event for each of the three payload shapes (a bare array  *)
(* of messages, an object with a messages array field, an array whose      *)
(* first element is the message array), whether it arrives as a correlated *)
(* 43<id> frame or as a generic 43 frame; afterwards the buffer is exactly *)
(* that sequence of messages.                                              *)
(***************************************************************************)
C21_AllShapesAccepted ==
    [][\A frame \in HistoryResponses(HistoryShapes) :
          (Receive(frame) /\ AnswersHistoryRequest(frame))
              => HistoryInstalled]_vars

\* the same with the shapes read as the acknowledgment's first argument
C21_AllWrappedShapesAccepted ==
    [][\A frame \in HistoryResponses(WrappedShapes) :
          (Receive(frame) /\ AnswersHistoryRequest(frame))
              => HistoryInstalled]_vars

\* the frame is a join-success signal: 42["setCookie"], or a correlated
\* acknowledgment of a pending joinRoom request
JoinSignal(frame) ==
    \/ frame = SetCookieFrame
    \/ /\ frame.digits \in NumberedAckTypes
       /\ pendingAcks[frame.digits[3]].event = "joinRoom"

\* the step took the next id for a getMessageHistory request and sent it
HistoryRequested ==
    /\ ackId' = (ackId + 1) % 10
    /\ pendingAcks'[ackId].event = "getMessageHistory"
    /\ out' = <<Request(ackId, "getMessageHistory", messageHistoryLimit)>>

C22_WitnessAfterDisconnect ==
    /\ ~isConnected
    /\ frames = 2
    /\ alloc.n = 1
    /\ pendingAcks[0].event = "getMessageHistory"
    /\ out = <<>>

(***************************************************************************)
(* SpecKeepalive: connect-info frames with different intervals and without *)
(* one, 41 frames, closes, reconnects and disconnect() calls.              *)
(***************************************************************************)
\* 0{"pingInterval":25000}, 0{"pingInterval":1000}, 0{} and 41
KeepaliveFrames ==
    {ConnectInfoFrame, ScenarioFrames[1],
     Frame(<<0>>, Json(JObj([sid |-> JStr("s")]))), DisconnectFrame}

InitKeepalive ==
    Constructed(Budget(MaxConnectsKeepalive, 1, MaxFramesKeepalive, 0, 0, 0),
                {0})

NextKeepalive ==
    \/ CallConnect
    \/ CallDisconnect
    \/ TransportOpen
    \/ TransportClose
    \/ ReconnectTimer
    \/ PingTick
    \/ \E frame \in KeepaliveFrames : Receive(frame)

SpecKeepalive == InitKeepalive /\ [][NextKeepalive]_vars

\* the frame is a connect-info frame that carries a ping interval
CarriesInterval(frame) ==
    /\ frame.digits = <<0>>
    /\ frame.body.b = "json"
    /\ frame.body.v.k = "obj"
    /\ "pingInterval" \in DOMAIN frame.body.v.f

(***************************************************************************)
(* C23: the keepalive timer is started only by a connect-info (0) frame    *)
(* that carries a ping interval, and at most one keepalive timer is live   *)
(* at any time: a second 0 frame stops the existing timer before starting  *)
(* the new one, and after a transport close, a 41 frame or disconnect() no *)
(* keepalive timer is live.                                                *)
(***************************************************************************)
C23_OneKeepaliveTimer ==
    /\ [](pingTimers.live <= 1)
    /\ [][/\ pingTimers'.set # pingTimers.set
             => \E frame \in KeepaliveFrames :
                    /\ CarriesInterval(frame)
                    /\ Receive(frame)
                    /\ pingTimers'.live = 1
                    /\ pingTimers'.cleared = pingTimers.cleared
                                                 + pingTimers.live
                    /\ pingInterval' = frame.body.v.f.pingInterval.v
          /\ (TransportClose \/ Receive(DisconnectFrame) \/ CallDisconnect)
             => pingTimers'.live = 0]_vars

\* a second connect-info frame has replaced the running timer
C23_Witness ==
    /\ pingTimers = [live |-> 1, set |-> 2, cleared |-> 1]
    /\ pingInterval = 1000
    /\ frames = 2

(***************************************************************************)
(* SpecRecovery: transport attempts fail or open, sessions are ended by 41 *)
(* frames and closes before or after they become Active, and the reconnect *)
(* timeouts start new sessions that handshake, join and fetch the history. *)
(***************************************************************************)
InitRecovery ==
    Constructed(Budget(MaxConnectsRecovery, 1, MaxFramesRecovery, 0, 0, 0),
                {0})

NextRecovery ==
    \/ CallConnect
    \/ TransportOpen
    \/ TransportFailed
    \/ TransportClose
    \/ ReconnectTimer
    \/ \E frame \in SessionFrames : Receive(frame)

SpecRecovery == InitRecovery /\ [][NextRecovery]_vars

(***************************************************************************)
(* C24: the reconnect attempt counter is 0 whenever the session reaches    *)
(* Active (history-ready has been emitted for the current session), for    *)
(* every sequence of opens, 41 frames, closes and failures that precedes   *)
(* it.                                                                     *)
(***************************************************************************)
C24_CounterZeroAtActive ==
    (connState = "Active" /\ EmittedNow("messageHistory"))
        => reconnectAttempts = 0

\* the transport attempts the client started by itself, from a reconnect
\* timeout
AutomaticAttempts == connects - calls

(***************************************************************************)
(* C25: if no session ever reaches Active, the client makes at most 5      *)
(* automatic reconnect attempts in total before emitting the terminal      *)
(* give-up event, for any mix of transport-open failures and connections   *)
(* that open and then close before becoming Active (it does not reconnect  *)
(* forever).                                                               *)
(***************************************************************************)
C25_AtMostFiveAttempts ==
    (connState # "Active" /\ giveUps = 0) => AutomaticAttempts <= 5

\* the connections that are open
OpenHandles == {h \in Handles : transport[h] = "open"}

(***************************************************************************)
(* C26: at any time the client has at most one transport connection open   *)
(* or being opened and at most one pending reconnect timeout, under every  *)
(* interleaving of 41 frames, transport close events, connectFailed        *)
(* events, reconnect timer firings and caller connect() calls.             *)
(***************************************************************************)
C26_OneConnectionOneTimeout ==
    /\ Cardinality(OpenHandles) + connecting <= 1
    /\ timers <= 1

(***************************************************************************)
(* C27: events of a superseded connection do not disturb the current one:  *)
(* a close event delivered for an older connection never clears the        *)
(* connection handle or the connected flag of a newer open connection and  *)
(* never stops that connection's keepalive timer.                          *)
(***************************************************************************)
C27_OldCloseLeavesCurrent ==
    [][\A h \in Handles :
          (/\ TransportClose
           /\ transport[h] # "closed" /\ transport'[h] = "closed"
           /\ connection # Null /\ connection # h
           /\ transport[connection] = "open")
              => /\ connection' = connection
                 /\ isConnected' = isConnected
                 /\ pingInterval' = pingInterval]_vars

\* the buffer after msg is appended to items (the oldest entry leaves when
\* the buffer is over its capacity)
Appended(items, msg) ==
    IF Len(items) + 1 > messageHistoryLimit
    THEN SubSeq(items, 2, Len(items)) \o <<msg>>
    ELSE items \o <<msg>>

(***************************************************************************)
(* C28: an inbound 42["newMessage", msg] frame, in any connection state    *)
(* (also before Active), appends exactly msg to the end of the History     *)
(* Buffer and emits exactly one message event carrying msg; it is never    *)
(* rejected because of the state.                                          *)
(***************************************************************************)
C28_NewMessageAlwaysAppended ==
    [][ReceiveNewMessage =>
          /\ IsArray(messageHistory')
          /\ IsArray(messageHistory) =>
                 messageHistory'.items
                     = Appended(messageHistory.items, Msg(msgCount + 1))
          /\ evs' = <<Event("message", Msg(msgCount + 1))>>]_vars

\* the same for the states in which the buffer is an array
C28_AppendedToArrayBuffer ==
    [][(ReceiveNewMessage /\ IsArray(messageHistory)) =>
          /\ messageHistory'
                 = JArr(Appended(messageHistory.items, Msg(msgCount + 1)))
          /\ evs' = <<Event("message", Msg(msgCount + 1))>>]_vars

\* the history responses the handlers install: 43[[m, m]],
\* 43[{"messages":[m, m]}] and 430[[m, m]]
InstalledResponses ==
    {Frame(<<4, 3>>, Json(JArr(<<JArr(HistoryOf(2))>>))),
     Frame(<<4, 3>>, Json(JArr(<<JObj([messages |-> JArr(HistoryOf(2))])>>))),
     Frame(<<4, 3, 0>>, Json(JArr(<<JArr(HistoryOf(2))>>)))}

(***************************************************************************)
(* C29: a history response sets the History Buffer to exactly the messages *)
(* of that response: entries that were in the buffer before it (including  *)
(* messages appended by newMessage frames that arrived between the history *)
(* request and its response) are no longer in the buffer afterwards.       *)
(***************************************************************************)
C29_HistoryReplacesBuffer ==
    [][\A frame \in InstalledResponses :
          (Receive(frame) /\ AnswersHistoryRequest(frame)) =>
              /\ messageHistory' = JArr(HistoryOf(2))
              /\ \A i \in 1..msgCount :
                     \A k \in 1..Len(messageHistory'.items) :
                         messageHistory'.items[k] # Msg(i)]_vars

\* the history was requested, a chat message arrived and was appended, and
\* the correlated response has just replaced the buffer
C29_Witness ==
    /\ frames = 3
    /\ msgCount = 1
    /\ journal = <<[kind |-> "msg", m |-> Msg(1)]>>
    /\ alloc.n = 1
    /\ pendingAcks[0] = NoAck
    /\ EmittedNow("messageHistory")
    /\ messageHistory = JArr(HistoryOf(2))

\* v is a message object
IsMessage(v) == v.k = "obj" /\ "id" \in DOMAIN v.f

(***************************************************************************)
(* C30: a generic 43 acknowledgment whose payload is not a message list    *)
(* (for example 43[{"error":"x"}] or 43[{"id":"m1"}]) leaves the History   *)
(* Buffer unchanged and emits no history-ready event; in every reachable   *)
(* state the History Buffer is a sequence of messages.                     *)
(***************************************************************************)
C30_BufferIsMessageSequence ==
    /\ [](/\ IsArray(messageHistory)
          /\ \A k \in 1..Len(messageHistory.items) :
                 IsMessage(messageHistory.items[k]))
    /\ [][\A frame \in NoListFrames :
             Receive(frame) =>
                 /\ messageHistory' = messageHistory
                 /\ ~Emitted([evs |-> evs'], "messageHistory")]_vars

(***************************************************************************)
(* SpecJoin: one session (one connect() call, one transport, which stays   *)
(* open) receives the namespace acknowledgment, the joinRoom               *)
(* acknowledgment, a setCookie event and correlated history responses, in  *)
(* any order; the frames written and the events emitted are logged.        *)
(***************************************************************************)
MaxFramesJoin == 5

JoinFrames ==
    {HandshakeAckFrame, AckFrame(0), SetCookieFrame}
        \cup {Frame(<<4, 3, d>>, Json(JArr(<<JArr(HistoryOf(2))>>))) : d \in 1..2}

InitJoin ==
    Constructed([Budget(1, 1, MaxFramesJoin, 0, 0, 0) EXCEPT !.logged = TRUE],
                {0})

NextJoin ==
    \/ CallConnect
    \/ TransportOpen
    \/ \E frame \in JoinFrames : Receive(frame)

SpecJoin == InitJoin /\ [][NextJoin]_vars

\* the getMessageHistory requests written so far
HistoryRequests ==
    SelectSeq(log.out, LAMBDA x : x.t = "42" /\ x.event = "getMessageHistory")

(***************************************************************************)
(* C31: within one session (one transport open) at most one                *)
(* getMessageHistory request is sent and at most one history-ready event   *)
(* is emitted, also when both join-success signals (the joinRoom           *)
(* acknowledgment and a setCookie event) arrive.                           *)
(***************************************************************************)
C31_OneHistoryPerSession ==
    /\ Len(HistoryRequests) <= 1
    /\ Len(HistoryEvents) <= 1

\* the first half alone
C31_OneHistoryRequestPerSession == Len(HistoryRequests) <= 1

\* the request now pending under id was written in a session whose transport
\* is still open
PendingInLiveSession(id) ==
    /\ alloc.owner[id] \in DOMAIN transport
    /\ transport[alloc.owner[id]] = "open"

(***************************************************************************)
(* C32: a correlated acknowledgment 43<d> received in a session is routed  *)
(* only to a request sent in that same session: a pending entry left over  *)
(* from a session that ended (close, 41 or reconnect) is never resolved by *)
(* an acknowledgment of the following session.                             *)
(***************************************************************************)
C32_AckRoutedWithinSession ==
    [][\A frame \in SessionFrames :
          (/\ frame.digits \in NumberedAckTypes
           /\ Receive(frame)
           /\ pendingAcks[frame.digits[3]].event # "none"
           /\ pendingAcks'[frame.digits[3]].event = "none")
              => PendingInLiveSession(frame.digits[3])]_vars

\* the case of a session ended by the close of its transport
C32_ClosedSessionEntryNeverResolved ==
    [][\A frame \in SessionFrames :
          (/\ frame.digits \in NumberedAckTypes
           /\ Receive(frame)
           /\ pendingAcks[frame.digits[3]].event # "none"
           /\ pendingAcks'[frame.digits[3]].event = "none"
           /\ alloc.owner[frame.digits[3]] \in DOMAIN transport)
              => transport[alloc.owner[frame.digits[3]]] # "closed"]_vars

(***************************************************************************)
(* SpecSendAck: the caller sends chat messages in an open session and the  *)
(* server acknowledges them, with and without an error field.              *)
(***************************************************************************)
MaxFramesSendAck == 3
MaxSendsSendAck == 2

\* the first argument of a sendMessage acknowledgment: {"error":"x"},
\* {"error":null}, {"error":""}, {"error":0} and {"id":1} (no error field)
SendAckPayloads ==
    {JObj([error |-> JStr("x")]), JObj([error |-> JNull]),
     JObj([error |-> JStr("")]), JObj([error |-> JNum(0)]), Msg(1)}

SendAckFrames ==
    {Frame(<<4, 3, d>>, Json(JArr(<<payload>>))) :
        d \in 0..1, payload \in SendAckPayloads}

InitSendAck ==
    Constructed(Budget(1, 1, MaxFramesSendAck, 0, MaxSendsSendAck, 0), {0})

NextSendAck ==
    \/ CallConnect
    \/ TransportOpen
    \/ CallSendMessage
    \/ \E frame \in SendAckFrames \cup {HandshakeAckFrame} : Receive(frame)

SpecSendAck == InitSendAck /\ [][NextSendAck]_vars

\* the frame acknowledges a pending sendMessage request
AcknowledgesSend(frame) ==
    /\ frame.digits \in NumberedAckTypes
    /\ pendingAcks[frame.digits[3]].event = "sendMessage"

\* the payload has an error field
CarriesErrorField(payload) == "error" \in DOMAIN payload.f

\* the payload has an error field that is not null, "" or 0
CarriesError(payload) ==
    /\ CarriesErrorField(payload)
    /\ payload.f.error \notin {JNull, JStr(""), JNum(0)}

(***************************************************************************)
(* C33: a correlated acknowledgment whose resolved kind is sendMessage and *)
(* whose payload carries an error field emits exactly one server-error     *)
(* event with that payload, removes the pending entry, and causes no       *)
(* retransmission of the message; with no error field no event is emitted. *)
(***************************************************************************)
C33_ErrorFieldReported ==
    [][\A frame \in SendAckFrames :
          (Receive(frame) /\ AcknowledgesSend(frame)) =>
              /\ pendingAcks'[frame.digits[3]] = NoAck
              /\ out' = <<>>
              /\ evs' = IF CarriesErrorField(frame.body.v.items[1])
                        THEN <<Event("serverError", frame.body.v.items[1])>>
                        ELSE <<>>]_vars

\* C33 as amended: the event is emitted when the error field holds a value
\* other than null, "" and 0 (a truthy value)
C33_ErrorValueReported ==
    [][\A frame \in SendAckFrames :
          (Receive(frame) /\ AcknowledgesSend(frame)) =>
              /\ pendingAcks'[frame.digits[3]] = NoAck
              /\ out' = <<>>
              /\ evs' = IF CarriesError(frame.body.v.items[1])
                        THEN <<Event("serverError", frame.body.v.items[1])>>
                        ELSE <<>>]_vars

\* an acknowledgment with {"error":"x"} has just resolved the first of two
\* pending sendMessage requests
C33_Witness ==
    /\ sends = 2
    /\ pendingAcks[0] = NoAck
    /\ pendingAcks[1].event = "sendMessage"
    /\ evs = <<Event("serverError", JObj([error |-> JStr("x")]))>>
    /\ out = <<>>

(***************************************************************************)
(* SpecPong: the server pings the client in sessions that it also ends by  *)
(* 41 frames and closes, and that the reconnect timeouts start again.      *)
(***************************************************************************)
MaxConnectsPong == 2
MaxFramesPong == 4

PingFrame == Frame(<<2>>, Empty)

PongFrames == {PingFrame, ConnectInfoFrame, HandshakeAckFrame, DisconnectFrame}

InitPong ==
    Constructed(Budget(MaxConnectsPong, 1, MaxFramesPong, 0, 0, 0), {0})

NextPong ==
    \/ CallConnect
    \/ TransportOpen
    \/ TransportClose
    \/ ReconnectTimer
    \/ PingTick
    \/ \E frame \in PongFrames : Receive(frame)

SpecPong == InitPong /\ [][NextPong]_vars

(***************************************************************************)
(* C34: every inbound ping frame (2) received on an open transport is      *)
(* answered by exactly one pong frame (3) written to that transport before *)
(* the next inbound frame is processed.                                    *)
(***************************************************************************)
C34_PingAnswered ==
    [][Receive(PingFrame) => out' = <<[t |-> "3"]>>]_vars

\* the same for the pings received while the connected flag is set
C34_PingAnsweredWhileConnected ==
    [][(Receive(PingFrame) /\ connection # Null /\ isConnected)
          => out' = <<[t |-> "3"]>>]_vars

(***************************************************************************)
(* The text of a sendMessage frame.  Strings are sequences of characters;  *)
(* the frame is built by a template literal that copies the room id, the   *)
(* message and the username between fixed pieces of JSON text.             *)
(***************************************************************************)
Quote == "\""
Backslash == "\\"

\* the pieces of `42${id}["sendMessage",{"roomId":"${roomId}","message":"${message}","username":"${username}"}]`
SendMessageHead ==
    <<"[", Quote, "s", "e", "n", "d", "M", "e", "s", "s", "a", "g", "e",
      Quote, ",", "{", Quote, "r", "o", "o", "m", "I", "d", Quote, ":",
      Quote>>

SendMessageMid ==
    <<Quote, ",", Quote, "m", "e", "s", "s", "a", "g", "e", Quote, ":",
      Quote>>

SendMessageMid2 ==
    <<Quote, ",", Quote, "u", "s", "e", "r", "n", "a", "m", "e", Quote,
      ":", Quote>>

SendMessageTail ==
    <<Quote, "}", "]">>

RoomIdText == <<"r">>
UsernameText == <<"u">>

DigitChar(d) == <<"0", "1", "2", "3", "4", "5", "6", "7", "8", "9">>[d + 1]

\* the characters written for the request x
FrameText(x) ==
    <<"4", "2", DigitChar(x.id)>> \o SendMessageHead \o RoomIdText
        \o SendMessageMid \o x.arg \o SendMessageMid2 \o UsernameText
        \o SendMessageTail

(***************************************************************************)
(* JSON.parse as the receiver applies it to the text after the prefix, for *)
(* texts made of strings and the punctuation of arrays and objects: the    *)
(* text is cut into string tokens (a quote up to the next quote that no    *)
(* backslash escapes, with \" and \\ unescaped) and punctuation tokens.     *)
(***************************************************************************)
Punctuation == {"[", "]", "{", "}", ":", ","}

StrToken(v) == [k |-> "str", v |-> v]
PunctToken(c) == [k |-> "punct", v |-> <<c>>]

\* the string literal whose opening quote is before position i
RECURSIVE StringAt(_, _, _)
StringAt(chars, i, acc) ==
    IF i > Len(chars) THEN [ok |-> FALSE]
    ELSE IF chars[i] = Quote THEN [ok |-> TRUE, v |-> acc, next |-> i + 1]
    ELSE IF chars[i] = Backslash
    THEN IF i + 1 <= Len(chars) /\ chars[i + 1] \in {Quote, Backslash, "/"}
         THEN StringAt(chars, i + 2, Append(acc, chars[i + 1]))
         ELSE [ok |-> FALSE]
    ELSE StringAt(chars, i + 1, Append(acc, chars[i]))

RECURSIVE LexAt(_, _, _)
LexAt(chars, i, toks) ==
    IF i > Len(chars) THEN [ok |-> TRUE, toks |-> toks]
    ELSE IF chars[i] = Quote
    THEN LET lit == StringAt(chars, i + 1, <<>>)
         IN IF lit.ok
            THEN LexAt(chars, lit.next, Append(toks, StrToken(lit.v)))
            ELSE [ok |-> FALSE]
    ELSE IF chars[i] \in Punctuation
    THEN LexAt(chars, i + 1, Append(toks, PunctToken(chars[i])))
    ELSE [ok |-> FALSE]

\* the tokens of ["e",{"k1":"v1","k2":"v2","k3":"v3"}]
EventTokens(e, k1, v1, k2, v2, k3, v3) ==
    <<PunctToken("["), StrToken(e), PunctToken(","), PunctToken("{"),
      StrToken(k1), PunctToken(":"), StrToken(v1), PunctToken(","),
      StrToken(k2), PunctToken(":"), StrToken(v2), PunctToken(","),
      StrToken(k3), PunctToken(":"), StrToken(v3), PunctToken("}"),
      PunctToken("]")>>

\* the text after the 42<id> prefix parses to
\* ["sendMessage", {roomId, message, username}] with these three values
ParsesToSendMessage(chars, roomId, message, username) ==
    LET lexed == LexAt(chars, 4, <<>>)
    IN /\ lexed.ok
       /\ lexed.toks =
              EventTokens(<<"s", "e", "n", "d", "M", "e", "s", "s", "a", "g", "e">>,
                          <<"r", "o", "o", "m", "I", "d">>, roomId,
                          <<"m", "e", "s", "s", "a", "g", "e">>, message,
                          <<"u", "s", "e", "r", "n", "a", "m", "e">>, username)

(***************************************************************************)
(* SpecFrameText: a session reaches Active and the caller sends one chat   *)
(* message whose text is any sequence of letters, double quotes and        *)
(* backslashes.                                                            *)
(***************************************************************************)
MaxTextLen == 2

TextAlphabet == {"a", Quote, Backslash}

Texts == UNION {[1..n -> TextAlphabet] : n \in 0..MaxTextLen}

\* the caller calls sendMessage(text)
CallSendMessageText ==
    /\ ~thrown
    /\ sends < cap.sends
    /\ \E text \in Texts :
        Apply(SendMessage([Begin EXCEPT !.sends = @ + 1], text))

InitFrameText ==
    Constructed(Budget(1, 1, Len(ScenarioFrames), 0, 1, 0), {0})

NextFrameText ==
    \/ CallConnect
    \/ TransportOpen
    \/ ReceiveScenarioFrame
    \/ CallSendMessageText

SpecFrameText == InitFrameText /\ [][NextFrameText]_vars

\* the last step was sendMessage(text) in the Active state
SentInActive ==
    /\ connState = "Active"
    /\ Len(out) = 1
    /\ out[1].t = "42"
    /\ out[1].event = "sendMessage"

(***************************************************************************)
(* C35: for every message text (including text containing a double quote   *)
(* or a backslash), the frame written by sendMessage in the Active state   *)
(* is 42<id> followed by valid JSON that parses to                         *)
(* ["sendMessage", {roomId, message, username}] with message equal to the  *)
(* given text.                                                             *)
(***************************************************************************)
C35_FrameParsesToText ==
    SentInActive =>
        LET chars == FrameText(out[1])
        IN /\ SubSeq(chars, 1, 3) = <<"4", "2", DigitChar(out[1].id)>>
           /\ ParsesToSendMessage(chars, RoomIdText, out[1].arg, UsernameText)

\* the same for the texts without a double quote or a backslash
C35_PlainTextParses ==
    (SentInActive /\ \A k \in 1..Len(out[1].arg) :
                         out[1].arg[k] \notin {Quote, Backslash}) =>
        ParsesToSendMessage(FrameText(out[1]), RoomIdText, out[1].arg,
                            UsernameText)

(***************************************************************************)
(* SpecOrchestration: the client as initPumpChat sets it up (no 'error'    *)
(* listener), in sessions the server ends by 41 frames and closes.         *)
(***************************************************************************)
MaxConnectsOrchestration == 2
MaxFramesOrchestration == 6

\* the events initPumpChat registers a listener for
InitPumpChatListeners ==
    {"message", "connected", "disconnected", "tryReconnect",
     "tryRecomaxReconnectAttemptsReachednnect"}

OrchestrationFrames ==
    {HandshakeAckFrame, AckFrame(0), HistoryAckFrame(1, 1), DisconnectFrame}

InitOrchestration ==
    /\ Constructed(Budget(MaxConnectsOrchestration, 1, MaxFramesOrchestration,
                          1, 0, 0), {0})
    /\ hasErrorListener = ("error" \in InitPumpChatListeners)

NextOrchestration ==
    \/ CallConnect
    \/ TransportOpen
    \/ TransportFailed
    \/ TransportClose
    \/ ReconnectTimer
    \/ ReceiveNewMessage
    \/ \E frame \in OrchestrationFrames : Receive(frame)

SpecOrchestration == InitOrchestration /\ [][NextOrchestration]_vars

(***************************************************************************)
(* C36: every lifecycle notification the client emits is consumed by the   *)
(* orchestration layer's listener for it; in particular, when the client   *)
(* emits the give-up event (maxReconnectAttemptsReached), the listener     *)
(* registered by initPumpChat for critical reconnect failure runs.         *)
(***************************************************************************)
C36_EveryNotificationConsumed ==
    \A i \in 1..Len(evs) : evs[i].name \in InitPumpChatListeners

\* the give-up event alone
C36_GiveUpConsumed ==
    EmittedNow("maxReconnectAttemptsReached")
        => "maxReconnectAttemptsReached" \in InitPumpChatListeners

\* the notifications that do have a listener
C36_RegisteredEventsOnly ==
    \A i \in 1..Len(evs) :
        evs[i].name \in InitPumpChatListeners
            \cup {"maxReconnectAttemptsReached", "messageHistory"}

(***************************************************************************)
(* The scheduler (server/jobs/scheduler.ts).  Every await is a point where *)
(* a turn is suspended and other turns, the chat client and the database   *)
(* run; a turn record holds the position (pc) and the locals of one        *)
(* schedulerTurn() call.  sched.msgs and sched.rooms are the collections;  *)
(* sched.inflight holds the inserts that were started and not awaited.     *)
(***************************************************************************)
\* config.triggerCount of settings.json: the observer message count from
\* which an observer turn concludes the room
TriggerCount == 1

\* what getChatCompletion yields: a completion with content, a completion
\* whose content is empty or missing, or the Meteor.Error it throws
Completions == {"content", "empty", "fail"}

NewTurn ==
    [pc |-> "findActive", room |-> 0, count |-> 0, made |-> 0, pump |-> <<>>,
     at |-> 0, wrote |-> 0, seen |-> "none"]

Message(roomId, senderId, pumpMessages, timestamp) ==
    [roomId |-> roomId, senderId |-> senderId, pumpMessages |-> pumpMessages,
     timestamp |-> timestamp]

\* Messages.find({roomId}, {sort: {timestamp: 1}}).fetchAsync()
RECURSIVE SortByTimestamp(_)
SortByTimestamp(ms) ==
    IF ms = {} THEN <<>>
    ELSE LET first == CHOOSE m \in ms :
                          \A other \in ms : m.timestamp <= other.timestamp
         IN <<first>> \o SortByTimestamp(ms \ {first})

FetchHistory(sc, roomId) ==
    SortByTimestamp({m \in sc.msgs : m.roomId = roomId})

ActiveRooms(sc) == {r \in 1..Len(sc.rooms) : sc.rooms[r].status = "active"}

\* createNewRoom(echo), from the Rooms.insertAsync it awaits first
CreateNewRoomStep(sc, i, completion) ==
    LET turn == sc.turns[i]
    IN CASE turn.pc = "insertRoom" ->
              [sc EXCEPT !.rooms = Append(@, [status |-> "active", count |-> 0]),
                         !.turns[i].made = Len(sc.rooms) + 1,
                         !.turns[i].pc = "newNarrator"]
         [] turn.pc \in {"newNarrator", "newObserver"} ->
              IF completion = "fail" THEN [sc EXCEPT !.turns[i].pc = "failed"]
              ELSE IF completion = "empty"
              THEN [sc EXCEPT !.turns[i].pc = "done"]
              ELSE [sc EXCEPT !.clock = @ + 1,
                              !.turns[i].at = sc.clock + 1,
                              !.turns[i].pc =
                                  IF turn.pc = "newNarrator"
                                  THEN "insertNewNarrator"
                                  ELSE "insertNewObserver"]
         [] turn.pc = "insertNewNarrator" ->
              [sc EXCEPT !.msgs = @ \cup {Message(turn.made, "narrator", <<>>,
                                                  turn.at)},
                         !.turns[i].pc = "newObserver"]
         [] turn.pc = "insertNewObserver" ->
              [sc EXCEPT !.msgs = @ \cup {Message(turn.made, "observer", <<>>,
                                                  turn.at)},
                         !.turns[i].pc = "incNew"]
         [] turn.pc = "incNew" ->
              [sc EXCEPT !.rooms[turn.made].count = @ + 1,
                         !.turns[i].pc = "done"]

\* concludeAndTransitionRoom(roomId), from the Rooms.findOneAsync it awaits
\* first
ConcludeAndTransitionRoomStep(sc, i, completion) ==
    LET turn == sc.turns[i]
    IN CASE turn.pc = "concFind" -> [sc EXCEPT !.turns[i].pc = "concFetch"]
         [] turn.pc = "concFetch" ->
              [sc EXCEPT !.turns[i].seen =
                             IF \E m \in sc.msgs :
                                    /\ m.roomId = turn.room
                                    /\ m.timestamp = turn.wrote
                             THEN "yes" ELSE "no",
                         !.turns[i].pc = "summary"]
         [] turn.pc = "summary" ->
              IF completion = "fail" THEN [sc EXCEPT !.turns[i].pc = "failed"]
              ELSE [sc EXCEPT !.turns[i].pc = "archive"]
         [] turn.pc = "archive" ->
              [sc EXCEPT !.rooms[turn.room].status = "archived",
                         !.turns[i].pc = "insertRoom"]

\* continueConversation(room), from the Messages.find it awaits first
ContinueConversationStep(sc, i, completion) ==
    LET turn == sc.turns[i]
        isAnomalyTurn == turn.count >= TriggerCount
    IN CASE turn.pc = "fetch" ->
              LET history == FetchHistory(sc, turn.room)
              IN IF Len(history) > 0
                    /\ history[Len(history)].senderId = "observer"
                 THEN [sc EXCEPT !.turns[i].pc = "narrator"]
                 ELSE [sc EXCEPT !.turns[i].pc = "observer"]
         [] turn.pc \in {"narrator", "observer"} ->
              IF completion = "fail" THEN [sc EXCEPT !.turns[i].pc = "failed"]
              ELSE IF completion = "empty"
              THEN [sc EXCEPT !.turns[i].pc = "done"]
              ELSE IF turn.pc = "narrator"
              THEN [sc EXCEPT !.clock = @ + 1,
                              !.turns[i].at = sc.clock + 1,
                              !.turns[i].wrote = sc.clock + 1,
                              !.turns[i].pc = "insertNarrator"]
              ELSE [sc EXCEPT !.clock = @ + 1,
                              !.inflight =
                                  @ \cup {Message(turn.room, "observer",
                                                  turn.pump, sc.clock + 1)},
                              !.turns[i].wrote = sc.clock + 1,
                              !.turns[i].pc = "inc"]
         [] turn.pc = "insertNarrator" ->
              [sc EXCEPT !.msgs = @ \cup {Message(turn.room, "narrator",
                                                  turn.pump, turn.at)},
                         !.turns[i].pc = "done"]
         [] turn.pc = "inc" ->
              [sc EXCEPT !.rooms[turn.room].count = @ + 1,
                         !.turns[i].pc =
                             IF isAnomalyTurn THEN "concFind" ELSE "done"]

CreateNewRoomPcs ==
    {"insertRoom", "newNarrator", "insertNewNarrator", "newObserver",
     "insertNewObserver", "incNew"}

ContinueConversationPcs ==
    {"fetch", "narrator", "insertNarrator", "observer", "inc"}

ConcludePcs == {"concFind", "concFetch", "summary", "archive"}

MaxTurns == 3
MaxTurnsRooms == 4
MaxRunning == 2

\* the turns that have not ended
Running(sc) ==
    {i \in 1..Len(sc.turns) : sc.turns[i].pc \notin {"done", "failed"}}

\* startScheduler(), called at startup after initPumpChat(): the first turn,
\* awaited before the interval is set
StartScheduler ==
    /\ calls > 0
    /\ sched.turns = <<>>
    /\ Apply([Cur EXCEPT !.sched.turns = <<NewTurn>>])

\* the Meteor.setInterval callback starts a turn, whether or not the turns
\* before it have ended
IntervalTick ==
    /\ Len(sched.turns) \in 1..(cap.turns - 1)
    /\ sched.turns[1].pc = "done"
    /\ Cardinality(Running(sched)) < MaxRunning
    /\ Apply([Cur EXCEPT !.sched.turns = Append(@, NewTurn)])

\* schedulerTurn(): Rooms.findOneAsync({status: 'active'}) answers; with a
\* room, continueConversation runs up to its first await, draining the queue
SchedulerTurn ==
    \E i \in 1..Len(sched.turns) :
        /\ sched.turns[i].pc = "findActive"
        /\ IF ActiveRooms(sched) = {}
           THEN Apply([Cur EXCEPT !.sched.turns[i].pc = "insertRoom"])
           ELSE LET activeRoom == CHOOSE r \in ActiveRooms(sched) :
                                     \A other \in ActiveRooms(sched) : r <= other
                    e == ExtractMessages(Cur)
                IN IF e.s.thrown
                   THEN Apply([Cur EXCEPT !.sched.turns[i].pc = "failed"])
                   ELSE Apply([e.s EXCEPT
                                  !.sched.turns[i].pc = "fetch",
                                  !.sched.turns[i].room = activeRoom,
                                  !.sched.turns[i].count =
                                      sched.rooms[activeRoom].count,
                                  !.sched.turns[i].pump = e.result])

CreateNewRoom ==
    \E i \in 1..Len(sched.turns), completion \in Completions :
        /\ sched.turns[i].pc \in CreateNewRoomPcs
        /\ Apply([Cur EXCEPT !.sched = CreateNewRoomStep(@, i, completion)])

ContinueConversation ==
    \E i \in 1..Len(sched.turns), completion \in Completions :
        /\ sched.turns[i].pc \in ContinueConversationPcs
        /\ Apply([Cur EXCEPT
                      !.sched = ContinueConversationStep(@, i, completion)])

ConcludeAndTransitionRoom ==
    \E i \in 1..Len(sched.turns), completion \in Completions :
        /\ sched.turns[i].pc \in ConcludePcs
        /\ Apply([Cur EXCEPT
                      !.sched = ConcludeAndTransitionRoomStep(@, i, completion)])

\* an insert that was started and not awaited reaches the collection
InsertCompletes ==
    \E m \in sched.inflight :
        Apply([Cur EXCEPT !.sched.msgs = @ \cup {m},
                          !.sched.inflight = @ \ {m}])

(***************************************************************************)
(* SpecScheduler: startScheduler() runs the first turn and then the        *)
(* interval starts further turns, while the chat client delivers a pump    *)
(* message to the queue.                                                   *)
(***************************************************************************)
InitScheduler ==
    /\ Constructed([Budget(1, 1, 1, 1, 0, 0) EXCEPT !.turns = MaxTurns], {0})
    /\ hasErrorListener = ("error" \in InitPumpChatListeners)

NextScheduler ==
    \/ CallConnect
    \/ TransportOpen
    \/ ReceiveChatMessage
    \/ StartScheduler
    \/ IntervalTick
    \/ SchedulerTurn
    \/ CreateNewRoom
    \/ ContinueConversation
    \/ ConcludeAndTransitionRoom
    \/ InsertCompletes

SpecScheduler == InitScheduler /\ [][NextScheduler]_vars

(***************************************************************************)
(* SpecRooms: the scheduler alone, with one more turn, so that two turns   *)
(* can run while a room is being concluded.                                *)
(***************************************************************************)
InitRooms ==
    /\ Constructed([Budget(1, 1, 0, 0, 0, 0) EXCEPT !.turns = MaxTurnsRooms],
                   {0})
    /\ hasErrorListener = ("error" \in InitPumpChatListeners)

NextRooms ==
    \/ CallConnect
    \/ StartScheduler
    \/ IntervalTick
    \/ SchedulerTurn
    \/ CreateNewRoom
    \/ ContinueConversation
    \/ ConcludeAndTransitionRoom
    \/ InsertCompletes

SpecRooms == InitRooms /\ [][NextRooms]_vars

\* the persisted messages of room r, in timestamp order, are narrator,
\* observer, narrator, ...
Alternates(r) ==
    LET history == FetchHistory(sched, r)
    IN \A k \in 1..Len(history) :
           history[k].senderId = IF k % 2 = 1 THEN "narrator" ELSE "observer"

(***************************************************************************)
(* C37: in every room the persisted messages, in timestamp order,          *)
(* alternate strictly between narrator and observer, starting with the     *)
(* narrator, under every interleaving of scheduler turns (including a turn *)
(* that is still running when the next interval tick starts another) and   *)
(* also when a completion returns empty content.                           *)
(***************************************************************************)
C37_SendersAlternate == \A r \in 1..Len(sched.rooms) : Alternates(r)

\* turn i has ended and the message it persisted holds what it drained
DrainedStored(i) ==
    \E m \in sched.msgs \cup sched.inflight :
        /\ m.timestamp = sched.turns[i].wrote
        /\ m.pumpMessages = sched.turns[i].pump

(***************************************************************************)
(* C38: every pump.fun chat message drained by extractMessages at the      *)
(* start of a scheduler turn is stored in the pumpMessages field of the    *)
(* message persisted by that turn; no drained message is lost, also when   *)
(* the completion call fails or returns empty content.                     *)
(***************************************************************************)
C38_DrainedMessagesStored ==
    \A i \in 1..Len(sched.turns) :
        (sched.turns[i].pc \in {"done", "failed"}
            /\ sched.turns[i].pump # <<>>) => DrainedStored(i)

\* the same for the turns whose completion had content
C38_StoredWhenPersisted ==
    \A i \in 1..Len(sched.turns) :
        (sched.turns[i].pc \in {"done", "failed"}
            /\ sched.turns[i].pump # <<>>
            /\ sched.turns[i].wrote # 0) => DrainedStored(i)

(***************************************************************************)
(* C39: at most one room has status 'active' at any time, under every      *)
(* interleaving of scheduler turns (overlapping interval ticks, room       *)
(* creation when none is active, and archive-then-create in                *)
(* concludeAndTransitionRoom).                                             *)
(***************************************************************************)
C39_OneActiveRoom == Cardinality(ActiveRooms(sched)) <= 1

(***************************************************************************)
(* C40: when a room is concluded, the history that                         *)
(* concludeAndTransitionRoom reads to produce the summary contains the     *)
(* observer's concluding message of that same turn, i.e. that message's    *)
(* insert has completed before the history is fetched.                     *)
(***************************************************************************)
C40_ConcludingMessageInHistory ==
    \A i \in 1..Len(sched.turns) : sched.turns[i].seen # "no"

====
